---------------------------- MODULE Spec2Model ----------------------------
(***************************************************************************)
(* Model of the call-outcome classifier and QA report formatter of the    *)
(* Retell -> Zendesk backend (src/server.js, lines 1-503).                 *)
(*                                                                         *)
(* JavaScript values are records tagged with their type in field t.       *)
(* JavaScript strings are TLA+ strings, one character per UTF-16 code     *)
(* unit.  An object is the sequence of its <<key, value>> pairs in         *)
(* insertion order.                                                        *)
(***************************************************************************)
EXTENDS Integers, Sequences, FiniteSets, TLC

VARIABLES call, tagsOut, qaOut, qaParts, transferOut, ran, inbox, log, tickets, hook,
          arg, result, now, requests, env

\* the state of the first snapshot's server: the input and the result of a
\* helper under test, the wall clock, the requests sent to the ticket store
\* and the process environment
serverVars == <<arg, result, now, requests, env>>

vars == <<call, tagsOut, qaOut, qaParts, transferOut, ran, inbox, log, tickets, hook, serverVars>>

(***************************************************************************)
(* JavaScript values                                                       *)
(***************************************************************************)
Undef == [t |-> "undefined"]
Null == [t |-> "null"]
NaN == [t |-> "nan"]
Str(s) == [t |-> "string", v |-> s]
Num(n) == [t |-> "number", v |-> n]
Bool(b) == [t |-> "boolean", v |-> b]
Obj(pairs) == [t |-> "object", v |-> pairs]
Arr(elems) == [t |-> "array", v |-> elems]

\* typeof x
TypeOf(x) ==
    CASE x.t = "undefined" -> "undefined"
      [] x.t \in {"number", "nan"} -> "number"
      [] x.t = "string" -> "string"
      [] x.t = "boolean" -> "boolean"
      [] OTHER -> "object"

\* ToBoolean(x): the falsy values are undefined, null, false, 0, NaN and ""
Truthy(x) ==
    CASE x.t \in {"undefined", "null", "nan"} -> FALSE
      [] x.t = "boolean" -> x.v
      [] x.t = "number" -> x.v # 0
      [] x.t = "string" -> x.v # ""
      [] OTHER -> TRUE

\* a || b
Or(a, b) == IF Truthy(a) THEN a ELSE b

\* a ?? b
Coalesce(a, b) == IF a.t \in {"undefined", "null"} THEN b ELSE a

HasKey(o, k) == o.t = "object" /\ \E i \in 1..Len(o.v) : o.v[i][1] = k

\* o?.k : undefined when o is null or undefined, when o is a primitive
\* (no key read by the program is a property of a primitive or of an array)
\* and when o has no property k.
Get(o, k) ==
    IF HasKey(o, k)
    THEN o.v[CHOOSE i \in 1..Len(o.v) : o.v[i][1] = k][2]
    ELSE Undef

\* a === b for the comparisons the program makes (against a string or a
\* boolean literal)
StrictEq(a, b) == a.t = b.t /\ a = b

(***************************************************************************)
(* Strings                                                                 *)
(***************************************************************************)
RECURSIVE Rep(_, _)
\* c repeated n times
Rep(c, n) ==
    IF n <= 0 THEN ""
    ELSE IF n % 2 = 1 THEN c \o Rep(c, n - 1)
    ELSE LET h == Rep(c, n \div 2) IN h \o h

CharAt(s, i) == SubSeq(s, i, i)

\* String.prototype.slice(0, n) for n >= 0
Slice0(s, n) == IF n >= Len(s) THEN s ELSE SubSeq(s, 1, n)

UpperLetters == "ABCDEFGHIJKLMNOPQRSTUVWXYZ"
LowerLetters == "abcdefghijklmnopqrstuvwxyz"
Digits == "0123456789"

\* index of the one-character string c in alphabet, 0 when absent
IndexIn(c, alphabet) ==
    IF \E i \in 1..Len(alphabet) : CharAt(alphabet, i) = c
    THEN CHOOSE i \in 1..Len(alphabet) : CharAt(alphabet, i) = c
    ELSE 0

CharsOf(alphabet) == {CharAt(alphabet, i) : i \in 1..Len(alphabet)}

\* the lower-case letter of each upper-case letter
LowerOf == [c \in CharsOf(UpperLetters) |-> CharAt(LowerLetters, IndexIn(c, UpperLetters))]

LowerUnit(c) == IF c \in DOMAIN LowerOf THEN LowerOf[c] ELSE c

RECURSIVE Lower(_)
\* String.prototype.toLowerCase
Lower(s) ==
    IF Len(s) = 0 THEN ""
    ELSE IF Len(s) = 1 THEN LowerUnit(s)
    ELSE LET m == Len(s) \div 2
         IN  Lower(SubSeq(s, 1, m)) \o Lower(SubSeq(s, m + 1, Len(s)))

\* the text at position i of s is p
MatchAt(s, i, p) ==
    i >= 1 /\ i + Len(p) - 1 <= Len(s) /\ SubSeq(s, i, i + Len(p) - 1) = p

\* String.prototype.includes
Includes(s, p) == \E i \in 1..(Len(s) - Len(p) + 1) : MatchAt(s, i, p)

RECURSIVE NatToStr(_)
NatToStr(n) ==
    IF n < 10 THEN CharAt(Digits, n + 1)
    ELSE NatToStr(n \div 10) \o CharAt(Digits, (n % 10) + 1)

\* Number.prototype.toString for an integer
NumToStr(n) == IF n < 0 THEN "-" \o NatToStr(0 - n) ELSE NatToStr(n)

IsDigits(s) == Len(s) > 0 /\ \A i \in 1..Len(s) : IndexIn(CharAt(s, i), Digits) # 0

RECURSIVE DigitsToNat(_)
DigitsToNat(s) ==
    IF Len(s) = 0 THEN 0
    ELSE 10 * DigitsToNat(SubSeq(s, 1, Len(s) - 1))
         + (IndexIn(CharAt(s, Len(s)), Digits) - 1)


(***************************************************************************)
(* Conversions                                                             *)
(***************************************************************************)
RECURSIVE ToStrThrows(_)
\* ToString(x) raises a TypeError when x is an object whose own toString
\* property is not callable (every toString property of a parsed JSON body
\* is such), also as an element of an array, which Array.prototype.join
\* converts.
ToStrThrows(x) ==
    CASE x.t = "object" -> HasKey(x, "toString")
      [] x.t = "array" -> \E i \in 1..Len(x.v) : ToStrThrows(x.v[i])
      [] OTHER -> FALSE

RECURSIVE ToStr(_)
RECURSIVE JoinComma(_)
\* Array.prototype.join(","): null and undefined elements give ""
JoinComma(elems) ==
    IF Len(elems) = 0 THEN ""
    ELSE LET e == elems[Len(elems)]
             last == IF e.t \in {"undefined", "null"} THEN "" ELSE ToStr(e)
         IN  IF Len(elems) = 1 THEN last
             ELSE JoinComma(SubSeq(elems, 1, Len(elems) - 1)) \o "," \o last

\* ToString(x), x.toString() and `${x}`, when they do not raise
ToStr(x) ==
    CASE x.t = "undefined" -> "undefined"
      [] x.t = "null" -> "null"
      [] x.t = "nan" -> "NaN"
      [] x.t = "boolean" -> IF x.v THEN "true" ELSE "false"
      [] x.t = "number" -> NumToStr(x.v)
      [] x.t = "string" -> x.v
      [] x.t = "array" -> JoinComma(x.v)
      [] OTHER -> "[object Object]"

\* ToNumber of a string: the empty string is 0, a run of decimal digits is
\* its value, every other text of the model's inputs is NaN.
StrToNum(s) ==
    IF s = "" THEN Num(0)
    ELSE IF IsDigits(s) THEN Num(DigitsToNat(s))
    ELSE NaN

\* ToNumber(x), when it does not raise (it raises where ToString does)
ToNumber(x) ==
    CASE x.t = "undefined" -> NaN
      [] x.t = "null" -> Num(0)
      [] x.t = "nan" -> NaN
      [] x.t = "boolean" -> IF x.v THEN Num(1) ELSE Num(0)
      [] x.t = "number" -> x
      [] x.t = "string" -> StrToNum(x.v)
      [] OTHER -> StrToNum(ToStr(x))

\* x / d for a positive integer d, as an exact fraction; NaN / d is NaN
Quot(x, d) == IF x.t = "nan" THEN NaN ELSE [t |-> "fraction", num |-> x.v, den |-> d]

\* q > k and q < k for a fraction q and an integer k; false on NaN
Greater(q, k) == q.t = "fraction" /\ q.num > k * q.den
Less(q, k) == q.t = "fraction" /\ q.num < k * q.den

\* Math.round(q): the nearest integer, halves towards +Infinity
MathRound(q) ==
    IF q.t = "nan" THEN NaN ELSE Num((2 * q.num + q.den) \div (2 * q.den))

(***************************************************************************)
(* JSON.parse, for compact JSON texts: the literals, integers, strings     *)
(* without escapes and objects of these, without white space.  Every       *)
(* other text is a SyntaxError; the model's inputs hold no JSON text       *)
(* outside this grammar.                                                   *)
(***************************************************************************)
ParseFail == [ok |-> FALSE, v |-> Undef, n |-> 0]
Parsed(val, next) == [ok |-> TRUE, v |-> val, n |-> next]

\* the pairs with key k set to val: a repeated key keeps its first place
SetPair(pairs, k, val) ==
    IF \E i \in 1..Len(pairs) : pairs[i][1] = k
    THEN [i \in 1..Len(pairs) |-> IF pairs[i][1] = k THEN <<k, val>> ELSE pairs[i]]
    ELSE Append(pairs, <<k, val>>)

\* a string literal starting at the quote at i
ParseString(s, i) ==
    IF ~MatchAt(s, i, "\"") THEN ParseFail
    ELSE LET closing == {j \in (i + 1)..Len(s) : CharAt(s, j) = "\""}
         IN  IF closing = {} THEN ParseFail
             ELSE LET j == CHOOSE c \in closing : \A d \in closing : c <= d
                      body == SubSeq(s, i + 1, j - 1)
                  IN  IF Includes(body, "\\") \/ Includes(body, "\n")
                      THEN ParseFail
                      ELSE Parsed(Str(body), j + 1)

\* an integer starting at i
ParseInt(s, i) ==
    LET neg == MatchAt(s, i, "-")
        from == IF neg THEN i + 1 ELSE i
        ends == {j \in from..Len(s) : \A k \in from..j : IndexIn(CharAt(s, k), Digits) # 0}
    IN  IF ends = {} THEN ParseFail
        ELSE LET j == CHOOSE e \in ends : \A d \in ends : d <= e
                 digits == SubSeq(s, from, j)
             IN  IF Len(digits) > 1 /\ CharAt(digits, 1) = "0" THEN ParseFail
                 ELSE Parsed(Num(IF neg THEN 0 - DigitsToNat(digits)
                                        ELSE DigitsToNat(digits)), j + 1)

RECURSIVE ParseValue(_, _)
RECURSIVE ParseMembers(_, _, _)
ParseMembers(s, i, acc) ==
    LET key == ParseString(s, i)
    IN  IF ~key.ok \/ ~MatchAt(s, key.n, ":") THEN ParseFail
        ELSE LET val == ParseValue(s, key.n + 1)
             IN  IF ~val.ok THEN ParseFail
                 ELSE LET acc2 == SetPair(acc, key.v.v, val.v)
                      IN  IF MatchAt(s, val.n, ",") THEN ParseMembers(s, val.n + 1, acc2)
                          ELSE IF MatchAt(s, val.n, "}") THEN Parsed(Obj(acc2), val.n + 1)
                          ELSE ParseFail

ParseValue(s, i) ==
    IF MatchAt(s, i, "null") THEN Parsed(Null, i + 4)
    ELSE IF MatchAt(s, i, "true") THEN Parsed(Bool(TRUE), i + 4)
    ELSE IF MatchAt(s, i, "false") THEN Parsed(Bool(FALSE), i + 5)
    ELSE IF MatchAt(s, i, "\"") THEN ParseString(s, i)
    ELSE IF MatchAt(s, i, "{}") THEN Parsed(Obj(<<>>), i + 2)
    ELSE IF MatchAt(s, i, "{") THEN ParseMembers(s, i + 1, <<>>)
    ELSE ParseInt(s, i)

\* JSON.parse(s): ok is false when it raises a SyntaxError
JsonParse(s) ==
    LET r == ParseValue(s, 1)
    IN  IF r.ok /\ r.n = Len(s) + 1 THEN r ELSE ParseFail

(***************************************************************************)
(* Configuration (src/server.js, lines 15-28)                              *)
(***************************************************************************)
EARLY_HANGUP_THRESHOLD_SEC == 20
MAX_TRANSCRIPT_CHARS == 30000
MAX_VARS_JSON_CHARS == 6000
MAX_CALL_SUMMARY_CHARS == 6000
MAX_QA_BODY_CHARS == 60000

(***************************************************************************)
(* Helpers                                                                 *)
(***************************************************************************)
\* safeLower(x) raises where (x || "").toString() does
safeLowerThrows(x) == ToStrThrows(Or(x, Str("")))

safeLower(x) == Lower(ToStr(Or(x, Str(""))))

\* Array.isArray
IsArray(x) == x.t = "array"

\* Array.prototype.some over the results of its callback on the elements,
\* each "true", "false" or "throw": the elements are tested in order up to
\* the first one whose test is true or raises.
Some(results) ==
    LET stops == {i \in 1..Len(results) : results[i] # "false"}
    IN  IF stops = {} THEN "false"
        ELSE results[CHOOSE j \in stops : \A k \in stops : j <= k]

\* the callback of the first scan without its test of the role
invocationOfTransfer_AnyRole(e) ==
    IF safeLowerThrows(Get(e, "name")) THEN "throw"
    ELSE IF Includes(safeLower(Get(e, "name")), "transfer") THEN "true"
    ELSE "false"

\* e?.role === "tool_call_invocation" && safeLower(e?.name).includes("transfer")
invocationOfTransfer(e) ==
    IF ~StrictEq(Get(e, "role"), Str("tool_call_invocation")) THEN "false"
    ELSE IF safeLowerThrows(Get(e, "name")) THEN "throw"
    ELSE IF Includes(safeLower(Get(e, "name")), "transfer") THEN "true"
    ELSE "false"

\* safeLower(t?.name).includes("transfer")
toolCallOfTransfer(e) ==
    IF safeLowerThrows(Get(e, "name")) THEN "throw"
    ELSE IF Includes(safeLower(Get(e, "name")), "transfer") THEN "true"
    ELSE "false"

\* the scan of call.transcript_with_tool_calls: "true", "false" or "throw"
twtcHas(c) ==
    LET twtc == Get(c, "transcript_with_tool_calls")
    IN  IF IsArray(twtc)
        THEN Some([i \in 1..Len(twtc.v) |-> invocationOfTransfer(twtc.v[i])])
        ELSE "false"

\* the scan of call.tool_calls: "true", "false" or "throw"
toolCallsHas(c) ==
    LET toolCalls == Get(c, "tool_calls")
    IN  IF IsArray(toolCalls)
        THEN Some([i \in 1..Len(toolCalls.v) |-> toolCallOfTransfer(toolCalls.v[i])])
        ELSE "false"

didTransferThrows(c) ==
    \/ twtcHas(c) = "throw"
    \/ twtcHas(c) = "false" /\ toolCallsHas(c) = "throw"

didTransfer(c) ==
    IF twtcHas(c) = "true" THEN TRUE
    ELSE IF toolCallsHas(c) = "true" THEN TRUE
    ELSE FALSE

(***************************************************************************)
(* The Cyrillic code units of the escalation pattern.  A TLA+ string       *)
(* holds ASCII only, so each of these code units (named by its letter) is  *)
(* written as one ASCII character that, like the code unit it stands for,  *)
(* is neither a \w character nor white space; it has no upper case.  No    *)
(* other text of the model's transcripts uses these characters.            *)
(***************************************************************************)
Cy ==
    [ zhe |-> "#",
      i |-> "$",
      ve |-> "%",
      shorti |-> "&",
      o |-> "*",
      ghe |-> "+",
      a |-> "<",
      ie |-> ">",
      en |-> "?",
      te |-> "@",
      pe |-> "^",
      er |-> "}",
      el |-> "|",
      yu |-> "~",
      de |-> "=",
      u |-> ";",
      em |-> "/",
      ze |-> "(",
      ukrie |-> ")",
      rquote |-> "!" ]

UaZhyv == Cy.zhe \o Cy.i \o Cy.ve
UaAhent == Cy.a \o Cy.ghe \o Cy.ie \o Cy.en \o Cy.te
UaLiudyn == Cy.el \o Cy.yu \o Cy.de \o Cy.i \o Cy.en
UaYednai == Cy.ukrie \o Cy.de \o Cy.en \o Cy.a \o Cy.shorti

\* zhyv(yi|oho), the stems before \s+ahent
UaLiveStems == {UaZhyv \o Cy.i \o Cy.shorti, UaZhyv \o Cy.o \o Cy.ghe \o Cy.o}

\* operator | liudyn(a|u) | menedzher | z<U+2019>yednai | z'yednai | perevedy
UaWords ==
    { Cy.o \o Cy.pe \o Cy.ie \o Cy.er \o Cy.a \o Cy.te \o Cy.o \o Cy.er,
      UaLiudyn \o Cy.a,
      UaLiudyn \o Cy.u,
      Cy.em \o Cy.ie \o Cy.en \o Cy.ie \o Cy.de \o Cy.zhe \o Cy.ie \o Cy.er,
      Cy.ze \o Cy.rquote \o UaYednai,
      Cy.ze \o "'" \o UaYednai,
      Cy.pe \o Cy.ie \o Cy.er \o Cy.ie \o Cy.ve \o Cy.ie \o Cy.de \o Cy.i }

EnPhrases ==
    { "human", "real person", "live agent", "representative",
      "talk to someone", "speak to someone", "agent" }

\* \w
WordChars == CharsOf(LowerLetters) \cup CharsOf(UpperLetters) \cup CharsOf(Digits) \cup {"_"}

IsWordChar(c) == c \in WordChars

\* \s
IsSpace(c) == c \in {" ", "\n", "\t", "\r", "\f"}

IsWordAt(s, i) == i >= 1 /\ i <= Len(s) /\ IsWordChar(CharAt(s, i))

\* \b before position i of s
WordBoundary(s, i) == IsWordAt(s, i - 1) # IsWordAt(s, i)

\* /\b(human|real person|live agent|representative|talk to someone|speak to someone|agent)\b/.test(s)
RegexEn(s) ==
    \E p \in EnPhrases, i \in 1..Len(s) :
        WordBoundary(s, i) /\ MatchAt(s, i, p) /\ WordBoundary(s, i + Len(p))

\* the Ukrainian pattern, flag i: the code units it names have one case in
\* the model's alphabet
RegexUa(s) ==
    \E i \in 1..Len(s) :
        \/ \E w \in UaWords : MatchAt(s, i, w)
        \/ \E stem \in UaLiveStems, k \in 1..Len(s) :
               /\ MatchAt(s, i, stem)
               /\ \A j \in 0..(k - 1) : IsSpace(CharAt(s, i + Len(stem) + j))
               /\ MatchAt(s, i + Len(stem) + k, UaAhent)

detectRequestedHumanThrows(transcript) == safeLowerThrows(transcript)

detectRequestedHuman(transcript) ==
    LET lowered == safeLower(transcript)
        en == RegexEn(lowered)
        ua == RegexUa(ToStr(Or(transcript, Str(""))))
    IN  en \/ ua

\* the object JSON.parse failed on: { __parse_error: true, raw: ca }
ParseErrorObject(ca) == Obj(<< <<"__parse_error", Bool(TRUE)>>, <<"raw", ca>> >>)

getCallAnalysisObject(c) ==
    LET ca == Get(c, "call_analysis")
    IN  IF ~Truthy(ca) THEN Null
        ELSE IF TypeOf(ca) = "object" THEN ca
        ELSE IF TypeOf(ca) = "string"
             THEN IF JsonParse(ca.v).ok THEN JsonParse(ca.v).v ELSE ParseErrorObject(ca)
        ELSE Null

(***************************************************************************)
(* computeTags (src/server.js, lines 202-266).  The Set of tags is the     *)
(* sequence of its members in insertion order.                             *)
(***************************************************************************)
SetHas(set, x) == \E i \in 1..Len(set) : set[i] = x
SetAdd(set, x) == IF SetHas(set, x) THEN set ELSE Append(set, x)
SetDelete(set, x) == SelectSeq(set, LAMBDA y : y # x)

\* the tag set kept between invocations: the tags of the latest
\* invocation that returned are still in it
identityTags_Shared ==
    LET returned == {i \in 1..Len(log) : log[i].fn = "computeTags" /\ ~log[i].out.threw}
        kept == IF returned = {} THEN <<>>
                ELSE log[CHOOSE i \in returned : \A j \in returned : j <= i].out.v
    IN  SetAdd(SetAdd(SetAdd(kept, "retell_ai"), "voice_bot"), "ai_call_review")

\* the identity tags without the review marker
identityTags_NoReview == SetAdd(SetAdd(<<>>, "retell_ai"), "voice_bot")

\* tags.add("retell_ai"); tags.add("voice_bot"); tags.add("ai_call_review")
identityTags == SetAdd(SetAdd(SetAdd(<<>>, "retell_ai"), "voice_bot"), "ai_call_review")

\* if (call?.call_type) tags.add(`calltype_${safeLower(call.call_type)}`)
addCallType(tags, c) ==
    IF Truthy(Get(c, "call_type"))
    THEN SetAdd(tags, "calltype_" \o safeLower(Get(c, "call_type")))
    ELSE tags

\* const inVoicemail = !!ca?.in_voicemail
inVoicemail(ca) == Truthy(Get(ca, "in_voicemail"))

addVoicemail(tags, ca) ==
    SetAdd(tags, IF inVoicemail(ca) THEN "voicemail_yes" ELSE "voicemail_no")

addTransfer(tags, transferred) ==
    SetAdd(tags, IF transferred THEN "ai_transferred" ELSE "ai_not_transferred")

\* const userSentiment = safeLower(ca?.user_sentiment)
userSentimentOf(ca) == safeLower(Get(ca, "user_sentiment"))

addSentiment(tags, userSentiment) ==
    IF userSentiment # ""
    THEN SetAdd(tags, "sentiment_" \o userSentiment)
    ELSE SetAdd(tags, "sentiment_unknown")

\* const durationSec = (call?.duration_ms || 0) / 1000
durationSecOf(c) == Quot(ToNumber(Or(Get(c, "duration_ms"), Num(0))), 1000)

\* the user-hangup test reading every hangup as the user's
userHungUpOf_AnyHangup(c) ==
    LET disconnectionReason == safeLower(Get(c, "disconnection_reason"))
    IN  Includes(disconnectionReason, "hangup") \/ Includes(disconnectionReason, "client")

\* disconnectionReason.includes("user") || disconnectionReason.includes("client")
userHungUpOf(c) ==
    LET disconnectionReason == safeLower(Get(c, "disconnection_reason"))
    IN  Includes(disconnectionReason, "user") \/ Includes(disconnectionReason, "client")

\* the early-hangup test with the threshold included
isEarly_ThresholdIncluded(durationSec) ==
    Greater(durationSec, 0) /\ ~Greater(durationSec, EARLY_HANGUP_THRESHOLD_SEC)

\* the early-hangup test with a zero duration included
isEarly_ZeroIncluded(durationSec) ==
    ~Less(durationSec, 0) /\ Less(durationSec, EARLY_HANGUP_THRESHOLD_SEC)

\* durationSec > 0 && durationSec < EARLY_HANGUP_THRESHOLD_SEC
isEarly(durationSec) ==
    Greater(durationSec, 0) /\ Less(durationSec, EARLY_HANGUP_THRESHOLD_SEC)

\* the hangup tags without the else: an early hangup is a hangup too
addHangup_Both(tags, userHungUp, durationSec) ==
    IF userHungUp
    THEN SetAdd(IF isEarly(durationSec) THEN SetAdd(tags, "ai_early_hangup") ELSE tags,
                "ai_hangup")
    ELSE tags

addHangup(tags, userHungUp, durationSec) ==
    IF userHungUp
    THEN IF isEarly(durationSec)
         THEN SetAdd(tags, "ai_early_hangup")
         ELSE SetAdd(tags, "ai_hangup")
    ELSE tags

\* the outcome rule failing every call not reported successful
ruleFailed_AbsentFails(transferred, requestedHuman, userSentiment, callSuccessful, tags) ==
    \/ transferred
    \/ requestedHuman
    \/ userSentiment = "negative"
    \/ ~StrictEq(callSuccessful, Bool(TRUE))
    \/ SetHas(tags, "ai_hangup")

\* the condition of the outcome rule
ruleFailed(transferred, requestedHuman, userSentiment, callSuccessful, tags) ==
    LET hasCallSuccessful == TypeOf(callSuccessful) = "boolean"
    IN  \/ transferred
        \/ requestedHuman
        \/ userSentiment = "negative"
        \/ (hasCallSuccessful /\ StrictEq(callSuccessful, Bool(FALSE)))
        \/ SetHas(tags, "ai_hangup")

\* the early-hangup exception without its sentiment test
overrideApplies_AnySentiment(requestedHuman, userSentiment, tags) ==
    SetHas(tags, "ai_early_hangup") /\ ~requestedHuman

\* the early-hangup exception without its escalation test
overrideApplies_AnyRequest(requestedHuman, userSentiment, tags) ==
    SetHas(tags, "ai_early_hangup") /\ userSentiment # "negative"

\* the condition of the early-hangup exception
overrideApplies(requestedHuman, userSentiment, tags) ==
    SetHas(tags, "ai_early_hangup") /\ ~requestedHuman /\ userSentiment # "negative"

\* the outcome left as the outcome rule set it
outcomeOf_RuleOnly(failed, override) == IF failed THEN "ai_failed" ELSE "ai_resolved"

\* let outcome = "ai_resolved", set to "ai_failed" by the outcome rule and
\* back to "ai_resolved" by the early-hangup exception
outcomeOf(failed, override) ==
    LET byRule == IF failed THEN "ai_failed" ELSE "ai_resolved"
    IN  IF override THEN "ai_resolved" ELSE byRule

\* the outcome tag added only for a failed call
setOutcome_FailedOnly(tags, outcome) ==
    IF outcome = "ai_failed" THEN SetAdd(tags, outcome) ELSE tags

\* tags.delete("ai_resolved"); tags.delete("ai_failed"); tags.add(outcome)
setOutcome(tags, outcome) ==
    SetAdd(SetDelete(SetDelete(tags, "ai_resolved"), "ai_failed"), outcome)

\* the marker added whatever the transcript says
addRequestedHuman_Always(tags, requestedHuman) == SetAdd(tags, "requested_human")

addRequestedHuman(tags, requestedHuman) ==
    IF requestedHuman THEN SetAdd(tags, "requested_human") ELSE tags

\* computeTags(call) raises where one of its conversions does
computeTagsThrows(c) ==
    \/ Truthy(Get(c, "call_type")) /\ safeLowerThrows(Get(c, "call_type"))
    \/ didTransferThrows(c)
    \/ detectRequestedHumanThrows(Or(Get(c, "transcript"), Str("")))
    \/ safeLowerThrows(Get(getCallAnalysisObject(c), "user_sentiment"))
    \/ ToStrThrows(Or(Get(c, "duration_ms"), Num(0)))
    \/ safeLowerThrows(Get(c, "disconnection_reason"))

\* the tags up to the hangup classification (lines 203-237)
signalTags(c, ca, transferred, userSentiment) ==
    addHangup(addSentiment(addTransfer(addVoicemail(addCallType(identityTags, c), ca),
                                       transferred),
                           userSentiment),
              userHungUpOf(c), durationSecOf(c))

\* the outcome and the markers added to the tags (lines 254-265)
applyOutcome(tags, requestedHuman, failed, override) ==
    addRequestedHuman(setOutcome(IF override THEN SetAdd(tags, "ai_no_chance") ELSE tags,
                                 outcomeOf(failed, override)),
                      requestedHuman)

\* the outcome rule and the early-hangup exception on the signals read
\* (lines 239-254)
decideOutcome(tags, transferred, requestedHuman, userSentiment, callSuccessful) ==
    applyOutcome(tags, requestedHuman,
                ruleFailed(transferred, requestedHuman, userSentiment, callSuccessful, tags),
                overrideApplies(requestedHuman, userSentiment, tags))

\* computeTags once the call analysis is read
classify(c, ca, transferred, userSentiment) ==
    decideOutcome(signalTags(c, ca, transferred, userSentiment),
                  transferred,
                  detectRequestedHuman(Or(Get(c, "transcript"), Str(""))),
                  userSentiment,
                  Get(ca, "call_successful"))

computeTags(c) ==
    classify(c, getCallAnalysisObject(c), didTransfer(c),
             userSentimentOf(getCallAnalysisObject(c)))

(***************************************************************************)
(* JSON.stringify(value, null, 2)                                          *)
(***************************************************************************)
\* a reference back to an enclosing object: a value JSON.stringify raises on
Cycle == [t |-> "cycle"]

RECURSIVE StringifyThrows(_)
StringifyThrows(x) ==
    CASE x.t = "cycle" -> TRUE
      [] x.t = "object" -> \E i \in 1..Len(x.v) : StringifyThrows(x.v[i][2])
      [] x.t = "array" -> \E i \in 1..Len(x.v) : StringifyThrows(x.v[i])
      [] OTHER -> FALSE

\* the escape of one code unit inside a JSON string
EscapeUnit(c) ==
    CASE c = "\"" -> "\\\""
      [] c = "\\" -> "\\\\"
      [] c = "\n" -> "\\n"
      [] c = "\r" -> "\\r"
      [] c = "\t" -> "\\t"
      [] c = "\f" -> "\\f"
      [] OTHER -> c

RECURSIVE Escape(_)
Escape(s) ==
    IF Len(s) = 0 THEN ""
    ELSE IF Len(s) = 1 THEN EscapeUnit(s)
    ELSE LET m == Len(s) \div 2
         IN  Escape(SubSeq(s, 1, m)) \o Escape(SubSeq(s, m + 1, Len(s)))

Quote(s) == "\"" \o Escape(s) \o "\""

RECURSIVE JoinWith(_, _)
\* Array.prototype.join(sep) of a sequence of strings
JoinWith(parts, sep) ==
    IF Len(parts) = 0 THEN ""
    ELSE IF Len(parts) = 1 THEN parts[1]
    ELSE JoinWith(SubSeq(parts, 1, Len(parts) - 1), sep) \o sep \o parts[Len(parts)]

RECURSIVE Stringify(_, _)
\* the JSON text of x at indentation indent, with a gap of two spaces; an
\* undefined member is left out and an undefined element is null
Stringify(x, indent) ==
    LET inner == indent \o "  "
    IN  CASE x.t = "string" -> Quote(x.v)
          [] x.t = "number" -> NumToStr(x.v)
          [] x.t = "boolean" -> IF x.v THEN "true" ELSE "false"
          [] x.t \in {"null", "nan"} -> "null"
          [] x.t = "array" ->
                IF Len(x.v) = 0 THEN "[]"
                ELSE LET items == [i \in 1..Len(x.v) |->
                                      inner \o (IF x.v[i].t = "undefined" THEN "null"
                                                ELSE Stringify(x.v[i], inner))]
                     IN  "[\n" \o JoinWith(items, ",\n") \o "\n" \o indent \o "]"
          [] x.t = "object" ->
                LET kept == SelectSeq(x.v, LAMBDA pr : pr[2].t # "undefined")
                IN  IF Len(kept) = 0 THEN "{}"
                    ELSE LET members == [i \in 1..Len(kept) |->
                                            inner \o Quote(kept[i][1]) \o ": "
                                                  \o Stringify(kept[i][2], inner)]
                         IN  "{\n" \o JoinWith(members, ",\n") \o "\n" \o indent \o "}"

(***************************************************************************)
(* buildQaPayload (src/server.js, lines 44-58 and 156-200)                 *)
(***************************************************************************)
TruncationSuffix == "\n...[truncated]"

Max(a, b) == IF a >= b THEN a ELSE b

truncateThrows(str) == ToStrThrows(Or(str, Str("")))

\* truncate cutting at maxChars and then adding the suffix
truncate_SuffixOnTop(str, maxChars) ==
    IF Len(ToStr(Or(str, Str("")))) <= maxChars THEN ToStr(Or(str, Str("")))
    ELSE Slice0(ToStr(Or(str, Str(""))), maxChars) \o TruncationSuffix

\* the text s cut to maxChars (lines 46-48)
cutText(s, maxChars) ==
    IF Len(s) <= maxChars THEN s
    ELSE Slice0(s, Max(0, maxChars - Len(TruncationSuffix))) \o TruncationSuffix

truncate(str, maxChars) == cutText(ToStr(Or(str, Str(""))), maxChars)

StringifyFailed == "{\n  \"error\": \"failed to stringify\"\n}"

\* safeJson giving the empty text when JSON.stringify raises
safeJson_EmptyOnFailure(obj, maxChars) ==
    IF StringifyThrows(Coalesce(obj, Obj(<<>>)))
    THEN ""
    ELSE truncate(Str(Stringify(Coalesce(obj, Obj(<<>>)), "")), maxChars)

\* safeJson cutting every text to the transcript's cap
safeJson_TranscriptCap(obj, maxChars) ==
    IF StringifyThrows(Coalesce(obj, Obj(<<>>)))
    THEN StringifyFailed
    ELSE truncate(Str(Stringify(Coalesce(obj, Obj(<<>>)), "")), MAX_TRANSCRIPT_CHARS)

safeJson(obj, maxChars) ==
    IF StringifyThrows(Coalesce(obj, Obj(<<>>)))
    THEN StringifyFailed
    ELSE truncate(Str(Stringify(Coalesce(obj, Obj(<<>>)), "")), maxChars)

\* the text of the call summary before truncation
callSummaryRawOf(ca) ==
    IF Truthy(Get(ca, "__parse_error"))
    THEN Str("Error in parsing JSON for call analysis")
    ELSE Or(Or(Get(ca, "call_summary"), Get(ca, "call_summary_text")), Str(""))

\* Math.round((call?.duration_ms || 0) / 1000)
roundedDurationSec(c) == MathRound(Quot(ToNumber(Or(Get(c, "duration_ms"), Num(0))), 1000))

\* a missing field left empty
orNA_Empty(x) == Or(x, Str(""))

\* call?.call_id || "N/A"
orNA(x) == Or(x, Str("N/A"))

buildQaPayloadThrows(c) ==
    \/ ToStrThrows(Or(Get(c, "duration_ms"), Num(0)))
    \/ truncateThrows(Or(Get(c, "transcript"), Str("")))
    \/ truncateThrows(callSummaryRawOf(getCallAnalysisObject(c)))
    \/ \E k \in {"call_id", "agent_name", "call_type", "start_timestamp", "end_timestamp"} :
           ToStrThrows(orNA(Get(c, k)))

\* the three sections: the locals transcript, callSummary and varsJson
qaSections(c) ==
    LET vars_ == Or(Get(c, "collected_dynamic_variables"), Obj(<<>>))
        transcriptRaw == Or(Get(c, "transcript"), Str(""))
        ca == getCallAnalysisObject(c)
    IN  [transcript |-> truncate(transcriptRaw, MAX_TRANSCRIPT_CHARS),
         callSummary |-> truncate(callSummaryRawOf(ca), MAX_CALL_SUMMARY_CHARS),
         varsJson |-> safeJson(vars_, MAX_VARS_JSON_CHARS)]

\* the array literal of the report's lines (lines 180-196), given the locals
\* transcript, callSummary and varsJson
reportLines(c, sections) ==
    << "=== AI VOICE CALL REVIEW ===",
       "Call ID: " \o ToStr(orNA(Get(c, "call_id"))),
       "Agent Name: " \o ToStr(orNA(Get(c, "agent_name"))),
       "Call Type: " \o ToStr(orNA(Get(c, "call_type"))),
       "Duration (sec): " \o ToStr(roundedDurationSec(c)),
       "Start timestamp: " \o ToStr(orNA(Get(c, "start_timestamp"))),
       "End timestamp: " \o ToStr(orNA(Get(c, "end_timestamp"))),
       "",
       "=== COLLECTED VARIABLES ===",
       sections.varsJson,
       "",
       "=== CALL SUMMARY (from Retell call_analysis) ===",
       IF sections.callSummary # "" THEN sections.callSummary ELSE "N/A",
       "",
       "=== FULL TRANSCRIPT ===",
       IF sections.transcript # "" THEN sections.transcript ELSE "N/A" >>

\* the lines of the report, before they are joined
qaLines(c) == reportLines(c, qaSections(c))

\* the report before the overall cap is applied
qaBodyOf(c) == JoinWith(qaLines(c), "\n")

buildQaPayload(c) == truncate(Str(qaBodyOf(c)), MAX_QA_BODY_CHARS)

(***************************************************************************)
(* The CallRecords of the classifier's specification                      *)
(***************************************************************************)
\* the longest tool-call collection drawn
MaxToolEvents == 1

\* the durations drawn lie this many milliseconds around the early-hangup
\* threshold
ThresholdMargin == 1

ToolEvent(role, name) == Obj(<< <<"role", role>>, <<"name", name>> >>)

ToolEvents ==
    { ToolEvent(Str("tool_call_invocation"), Str("Transfer_Call")),
      ToolEvent(Str("agent"), Str("transfer_call")),
      ToolEvent(Str("tool_call_invocation"), Str("end_call")),
      Null }

RECURSIVE SeqsUpTo(_, _)
\* the sequences over S of length at most n
SeqsUpTo(S, n) ==
    IF n = 0 THEN {<<>>}
    ELSE LET shorter == SeqsUpTo(S, n - 1)
         IN  shorter \cup {Append(q, x) : q \in {r \in shorter : Len(r) = n - 1}, x \in S}

\* call.transcript_with_tool_calls and call.tool_calls
ToolCollections ==
    {Undef, Str("transfer")} \cup {Arr(q) : q \in SeqsUpTo(ToolEvents, MaxToolEvents)}

\* <<transcript_with_tool_calls, tool_calls>>
ToolPairs ==
    {<<a, Undef>> : a \in ToolCollections} \cup {<<Undef, a>> : a \in ToolCollections}

PlainToolPairs ==
    { <<Undef, Undef>>,
      <<Arr(<<ToolEvent(Str("tool_call_invocation"), Str("Transfer_Call"))>>), Undef>>,
      <<Arr(<<>>), Arr(<<ToolEvent(Undef, Str("transfer_to_human"))>>)>> }

PlainTranscripts ==
    { Undef,
      Str("User: hello"),
      Str("I want to speak to a HUMAN"),
      Str("humane treatment of agents") }

Transcripts ==
    PlainTranscripts \cup
    { Str(""),
      Str("Agent: Hi"),
      Str(Cy.o \o Cy.pe \o Cy.ie \o Cy.er \o Cy.a \o Cy.te \o Cy.o \o Cy.er),
      Str(UaZhyv \o Cy.i \o Cy.shorti \o " \n" \o UaAhent),
      Num(42),
      Obj(<< <<"toString", Num(1)>> >>) }

Sentiments == {Undef, Str("Negative"), Str("Neutral")}

CallSuccessfuls == {Undef, Bool(TRUE), Bool(FALSE)}

Voicemails == {Undef}

AnalysisObjects ==
    { Obj(<< <<"user_sentiment", s>>, <<"call_successful", cs>>, <<"in_voicemail", vm>> >>) :
        s \in Sentiments, cs \in CallSuccessfuls, vm \in Voicemails }

CallAnalyses ==
    AnalysisObjects
    \cup { Undef, Null, Num(7), Str("null"),
           Obj(<< <<"in_voicemail", Bool(TRUE)>>, <<"call_successful", Str("false")>> >>),
           Obj(<< <<"in_voicemail", Bool(FALSE)>> >>),
           Obj(<< <<"user_sentiment", Str("UNKNOWN")>> >>),
           Obj(<< <<"in_voicemail", Str("no")>> >>),
           Obj(<< <<"in_voicemail", Num(1)>> >>),
           Obj(<< <<"in_voicemail", Obj(<<>>)>> >>),
           Str("{\"user_sentiment\":\"negative\"}"),
           Str("{\"call_successful\":false,\"user_sentiment\":\"Positive\"}"),
           Str("not json") }

Durations ==
    { Undef, Num(0), Num(1), Num(120000), Str("5000"), Str("soon"), Bool(TRUE) }
    \cup { Num(EARLY_HANGUP_THRESHOLD_SEC * 1000 + d) :
             d \in (0 - ThresholdMargin)..ThresholdMargin }

DisconnectionReasons ==
    { Undef, Str("user_hangup"), Str("Client_Disconnect"), Str("agent_hangup") }

CallTypes == {Undef, Str("Web_Call")}

MakeCall(callType, ca, transcript, tools, duration, reason) ==
    Obj(<< <<"call_id", Str("call_1")>>,
           <<"call_type", callType>>,
           <<"call_analysis", ca>>,
           <<"transcript", transcript>>,
           <<"transcript_with_tool_calls", tools[1]>>,
           <<"tool_calls", tools[2]>>,
           <<"duration_ms", duration>>,
           <<"disconnection_reason", reason>> >>)

NotRun == [threw |-> FALSE, v |-> <<>>]
Threw == [threw |-> TRUE, v |-> <<>>]
Returned(x) == [threw |-> FALSE, v |-> x]

\* the server's own state while a helper is exercised apart from it
ServerIdle ==
    /\ arg = Undef
    /\ result = NotRun
    /\ now = Undef
    /\ requests = <<>>
    /\ env = Undef

(***************************************************************************)
(* The classifier applied to one CallRecord                                *)
(***************************************************************************)
\* every combination of the signals the outcome is computed from
SignalCalls ==
    { MakeCall(ct, ca, tr, tools, d, r) :
        ct \in CallTypes, ca \in AnalysisObjects, tr \in PlainTranscripts,
        tools \in PlainToolPairs, d \in Durations, r \in DisconnectionReasons }

\* every combination of the shapes of call_analysis, transcript and the
\* tool-call collections, on a user hangup and on no hangup
ShapeCalls ==
    { MakeCall(Undef, ca, tr, tools, d, r) :
        ca \in CallAnalyses, tr \in Transcripts, tools \in ToolPairs,
        d \in {Num(5000), Num(120000)}, r \in {Undef, Str("user_hangup")} }

InitTags ==
    /\ call \in SignalCalls \cup ShapeCalls \cup {Null, Undef}
    /\ tagsOut = NotRun
    /\ qaOut = NotRun
    /\ qaParts = NotRun
    /\ transferOut = NotRun
    /\ inbox = <<>>
    /\ log = <<>>
    /\ tickets = <<>>
    /\ hook = <<>>
    /\ ServerIdle
    /\ ran = {}

ComputeTags ==
    /\ "computeTags" \notin ran
    /\ ran' = ran \cup {"computeTags"}
    /\ tagsOut' = IF computeTagsThrows(call) THEN Threw ELSE Returned(computeTags(call))
    /\ UNCHANGED <<call, qaOut, qaParts, transferOut, inbox, log, tickets, hook, serverVars>>

NextTags == ComputeTags

SpecTags == InitTags /\ [][NextTags]_vars

(***************************************************************************)
(* The CallRecords of the formatter's specification                       *)
(***************************************************************************)
\* the section texts drawn are this many characters around their caps
LenMargin == 1

Around(cap) == {cap + d : d \in (0 - LenMargin)..LenMargin}

QaTranscripts ==
    {Undef, Str("User: hello\nAgent: hi")}
    \cup {Str(Rep("t", n)) : n \in Around(MAX_TRANSCRIPT_CHARS)}
    \cup {Str(Rep("t", 2 * MAX_TRANSCRIPT_CHARS))}

QaAnalyses ==
    { Undef,
      Str("not json"),
      Str("{\"call_summary\":\"Billing question\"}"),
      Obj(<< <<"call_summary", Str("")>>, <<"call_summary_text", Str("Caller hung up")>> >>) }
    \cup {Obj(<< <<"call_summary", Str(Rep("s", n))>> >>) : n \in Around(MAX_CALL_SUMMARY_CHARS)}

\* the length of the JSON text around the value of a one-member object
NotesOverhead == Len(Stringify(Obj(<< <<"notes", Str("")>> >>), ""))

QaVars ==
    { Undef,
      Obj(<< <<"name", Str("Bob \"B\"")>>, <<"attempts", Num(2)>>, <<"email", Undef>>,
             <<"items", Arr(<<Str("a"), Null>>)>> >>),
      Str("free text"),
      Obj(<< <<"self", Cycle>> >>) }
    \cup {Obj(<< <<"notes", Str(Rep("v", n - NotesOverhead))>> >>) : n \in Around(MAX_VARS_JSON_CHARS)}

MakeQaCall(callId, meta, duration, vars_, ca, transcript) ==
    Obj(<< <<"call_id", callId>>,
           <<"agent_name", meta[1]>>,
           <<"call_type", meta[2]>>,
           <<"start_timestamp", meta[3]>>,
           <<"end_timestamp", meta[4]>>,
           <<"duration_ms", duration>>,
           <<"collected_dynamic_variables", vars_>>,
           <<"call_analysis", ca>>,
           <<"transcript", transcript>> >>)

MetaPresent == <<Str("Support Bot"), Str("phone_call"), Num(1700000000), Num(1700000090)>>
MetaAbsent == <<Undef, Undef, Undef, Undef>>

\* the report of a call whose three sections are at their caps and whose
\* call_id is one character
FullBodyLen ==
    Len(qaBodyOf(MakeQaCall(Str("c"), MetaPresent, Num(90000),
                            Obj(<< <<"notes", Str(Rep("v", MAX_VARS_JSON_CHARS - NotesOverhead))>> >>),
                            Obj(<< <<"call_summary", Str(Rep("s", MAX_CALL_SUMMARY_CHARS))>> >>),
                            Str(Rep("t", MAX_TRANSCRIPT_CHARS)))))

\* call_id values, the long ones bringing such a report around the overall cap
QaIds ==
    {Undef, Str("call_1"), Num(42), Obj(<< <<"toString", Null>> >>)}
    \cup {Str(Rep("c", n - FullBodyLen + 1)) : n \in Around(MAX_QA_BODY_CHARS)}

\* every combination of the three sections
SectionCalls ==
    { MakeQaCall(Str("call_1"), MetaPresent, Num(90000), v, ca, tr) :
        v \in QaVars, ca \in QaAnalyses, tr \in QaTranscripts }

\* every combination of the metadata with sections at their caps
CapCalls ==
    { MakeQaCall(id, meta, d, v, ca, tr) :
        id \in QaIds, meta \in {MetaPresent, MetaAbsent},
        d \in {Undef, Num(1499), Num(1500), Num(90000), Str("soon")},
        v \in {Obj(<< <<"notes", Str(Rep("v", MAX_VARS_JSON_CHARS - NotesOverhead))>> >>)},
        ca \in {Undef, Obj(<< <<"call_summary", Str(Rep("s", MAX_CALL_SUMMARY_CHARS))>> >>)},
        tr \in {Undef, Str(Rep("t", MAX_TRANSCRIPT_CHARS))} }

(***************************************************************************)
(* The formatter applied to one CallRecord                                 *)
(***************************************************************************)
InitQa ==
    /\ call \in SectionCalls \cup CapCalls \cup {Null}
    /\ tagsOut = NotRun
    /\ qaOut = NotRun
    /\ qaParts = NotRun
    /\ transferOut = NotRun
    /\ inbox = <<>>
    /\ log = <<>>
    /\ tickets = <<>>
    /\ hook = <<>>
    /\ ServerIdle
    /\ ran = {}

BuildQaPayload ==
    /\ "buildQaPayload" \notin ran
    /\ ran' = ran \cup {"buildQaPayload"}
    /\ qaOut' = IF buildQaPayloadThrows(call) THEN Threw ELSE Returned(buildQaPayload(call))
    /\ qaParts' = IF buildQaPayloadThrows(call) THEN Threw ELSE Returned(qaSections(call))
    /\ UNCHANGED <<call, tagsOut, transferOut, inbox, log, tickets, hook, serverVars>>

NextQa == BuildQaPayload

SpecQa == InitQa /\ [][NextQa]_vars

(***************************************************************************)
(* didTransfer applied to one CallRecord                                   *)
(***************************************************************************)
\* the longest tool-call collection drawn for didTransfer
MaxTransferEvents == 2

TransferEvents ==
    ToolEvents \cup { ToolEvent(Undef, Str("TRANSFER to agent")),
                      ToolEvent(Str("tool_call_invocation"), Num(7)) }

TransferCollections ==
    {Undef, Null, Str("transfer"), ToolEvent(Str("tool_call_invocation"), Str("transfer"))}
    \cup {Arr(q) : q \in SeqsUpTo(TransferEvents, MaxTransferEvents)}

TransferCalls ==
    { Obj(<< <<"transcript_with_tool_calls", a>>, <<"tool_calls", b>> >>) :
        a \in TransferCollections, b \in TransferCollections }

InitTransfer ==
    /\ call \in TransferCalls \cup {Null, Undef, Obj(<<>>)}
    /\ tagsOut = NotRun
    /\ qaOut = NotRun
    /\ qaParts = NotRun
    /\ transferOut = NotRun
    /\ inbox = <<>>
    /\ log = <<>>
    /\ tickets = <<>>
    /\ hook = <<>>
    /\ ServerIdle
    /\ ran = {}

DidTransfer ==
    /\ "didTransfer" \notin ran
    /\ ran' = ran \cup {"didTransfer"}
    /\ transferOut' = IF didTransferThrows(call) THEN Threw ELSE Returned(didTransfer(call))
    /\ UNCHANGED <<call, tagsOut, qaOut, qaParts, inbox, log, tickets, hook, serverVars>>

NextTransfer == DidTransfer

SpecTransfer == InitTransfer /\ [][NextTransfer]_vars

(***************************************************************************)
(* Deliveries classified and formatted in any order, any number of times   *)
(***************************************************************************)
\* the invocations of one run
MaxInvocations == 4

Deliveries == {1, 2}

PureRecords ==
    { Null,
      MakeCall(Str("Web_Call"), Undef, Str("I want to speak to a HUMAN"),
               <<Undef, Undef>>, Num(5000), Str("user_hangup")),
      MakeCall(Undef, Obj(<< <<"user_sentiment", Str("Positive")>> >>), Undef,
               <<Undef, Arr(<<ToolEvent(Undef, Str("transfer_call"))>>)>>, Num(120000), Undef),
      MakeQaCall(Str("call_1"), MetaPresent, Num(90000), Obj(<< <<"self", Cycle>> >>),
                 Str("{\"call_summary\":\"Billing question\"}"), Str("User: hello\nAgent: hi")),
      MakeCall(Undef, Undef, Obj(<< <<"toString", Num(1)>> >>), <<Undef, Undef>>,
               Num(5000), Undef) }

InitPure ==
    /\ inbox \in [Deliveries -> PureRecords]
    /\ log = <<>>
    /\ tickets = <<>>
    /\ hook = <<>>
    /\ ServerIdle
    /\ call = Undef
    /\ tagsOut = NotRun
    /\ qaOut = NotRun
    /\ qaParts = NotRun
    /\ transferOut = NotRun
    /\ ran = {}

\* one invocation of computeTags on the record of delivery d
DeliveryComputeTags(d) ==
    /\ Len(log) < MaxInvocations
    /\ log' = Append(log, [d |-> d, fn |-> "computeTags",
                           out |-> IF computeTagsThrows(inbox[d]) THEN Threw
                                   ELSE Returned(computeTags(inbox[d]))])
    /\ UNCHANGED <<call, tagsOut, qaOut, qaParts, transferOut, ran, inbox, tickets, hook, serverVars>>

\* one invocation of buildQaPayload on the record of delivery d
DeliveryBuildQaPayload(d) ==
    /\ Len(log) < MaxInvocations
    /\ log' = Append(log, [d |-> d, fn |-> "buildQaPayload",
                           out |-> IF buildQaPayloadThrows(inbox[d]) THEN Threw
                                   ELSE Returned(buildQaPayload(inbox[d]))])
    /\ UNCHANGED <<call, tagsOut, qaOut, qaParts, transferOut, ran, inbox, tickets, hook, serverVars>>

NextPure ==
    \/ \E d \in Deliveries : DeliveryComputeTags(d)
    \/ \E d \in Deliveries : DeliveryBuildQaPayload(d)

SpecPure == InitPure /\ [][NextPure]_vars

(***************************************************************************)
(* The webhook that searches by external id before it creates              *)
(* (src/unnamed/part_000, lines 149-190 and 257-356).  Each await of the    *)
(* handler is a step of its own, so deliveries interleave there.           *)
(***************************************************************************)
\* safeStr(v, fallback), as a text
safeStr(v, fallback) == IF v \in {Null, Undef} THEN fallback ELSE ToStr(v)

\* a || b || "" on texts
FirstText(a, b) == IF a # "" THEN a ELSE b

\* the handler's transcript and summary
hookTranscript(c) ==
    FirstText(safeStr(Get(c, "transcript"), ""),
              safeStr(Get(Get(c, "call_analysis"), "transcript"), ""))

hookSummary(c) ==
    FirstText(safeStr(Get(Get(c, "call_analysis"), "call_summary"), ""),
              safeStr(Get(Get(c, "call_analysis"), "summary"), ""))

\* const callId = safeStr(call.call_id || "")
hookCallId(c) == safeStr(Or(Get(c, "call_id"), Str("")), "")

WebhookBody(callId, transcript, ca) ==
    Obj(<< <<"event", Str("call_analyzed")>>,
           <<"call", Obj(<< <<"call_id", callId>>, <<"transcript", transcript>>,
                            <<"call_analysis", ca>> >>)>> >>)

WebhookBodies ==
    { Obj(<< <<"event", Str("call_started")>> >>),
      WebhookBody(Undef, Str("User: hello"), Undef),
      WebhookBody(Str("call_1"), Undef, Undef),
      WebhookBody(Str("call_1"), Str("User: hello"), Undef),
      WebhookBody(Str("call_1"), Undef, Obj(<< <<"call_summary", Str("Billing question")>> >>)),
      WebhookBody(Str("call_2"), Str("User: hi"), Undef) }

\* a delivery whose request has arrived and whose handler has not started
Arrived == [pc |-> "received", callId |-> "", existingTicketId |-> Null, response |-> Null]

InitWebhook ==
    /\ inbox \in [Deliveries -> WebhookBodies]
    /\ hook = [d \in Deliveries |-> Arrived]
    /\ tickets = <<>>
    /\ ServerIdle
    /\ log = <<>>
    /\ call = Undef
    /\ tagsOut = NotRun
    /\ qaOut = NotRun
    /\ qaParts = NotRun
    /\ transferOut = NotRun
    /\ ran = {}

\* res.json(...) or res.status(500).json(...): the handler of d is over
Respond(d, status, message) ==
    hook' = [hook EXCEPT ![d].pc = "responded",
                         ![d].response = [status |-> status, message |-> message]]

\* the handler up to its first await: the checks of the payload, then the
\* search request is sent
WebhookReceive(d) ==
    /\ hook[d].pc = "received"
    /\ LET c == Get(inbox[d], "call")
       IN  IF ~Truthy(c)
           THEN Respond(d, 200, "no call object in webhook payload")
           ELSE IF hookCallId(c) = ""
           THEN Respond(d, 200, "missing call_id")
           ELSE IF hookTranscript(c) = "" /\ hookSummary(c) = ""
           THEN Respond(d, 200, "no transcript/summary yet")
           ELSE hook' = [hook EXCEPT ![d].pc = "searching", ![d].callId = hookCallId(c)]
    /\ UNCHANGED <<call, tagsOut, qaOut, qaParts, transferOut, ran, inbox, log, tickets, serverVars>>

\* data?.results?.[0]?.id || null for the query external_id:<externalId>
firstIdByExternalId(externalId) ==
    LET hits == {i \in 1..Len(tickets) : tickets[i].external_id = externalId}
    IN  IF hits = {} THEN Null
        ELSE Num(tickets[CHOOSE i \in hits : \A j \in hits : i <= j].id)

\* the ticket store answers the search; the handler goes on to send the
\* update of the ticket found or the creation of a new one
ZendeskSearch(d) ==
    /\ hook[d].pc = "searching"
    /\ hook' = [hook EXCEPT ![d].existingTicketId = firstIdByExternalId(hook[d].callId),
                            ![d].pc = IF Truthy(firstIdByExternalId(hook[d].callId))
                                      THEN "updating" ELSE "creating"]
    /\ UNCHANGED <<call, tagsOut, qaOut, qaParts, transferOut, ran, inbox, log, tickets, serverVars>>

\* the ticket store appends the comment of d to the ticket found
ZendeskUpdate(d) ==
    /\ hook[d].pc = "updating"
    /\ tickets' = [i \in 1..Len(tickets) |->
                      IF Num(tickets[i].id) = hook[d].existingTicketId
                      THEN [tickets[i] EXCEPT !.comments = Append(@, d)]
                      ELSE tickets[i]]
    /\ Respond(d, 200, "updated")
    /\ UNCHANGED <<call, tagsOut, qaOut, qaParts, transferOut, ran, inbox, log, serverVars>>

\* the ticket store creates a ticket with external_id callId
ZendeskCreate(d) ==
    /\ hook[d].pc = "creating"
    /\ tickets' = Append(tickets, [id |-> Len(tickets) + 1,
                                   external_id |-> hook[d].callId,
                                   comments |-> <<d>>])
    /\ Respond(d, 200, "created")
    /\ UNCHANGED <<call, tagsOut, qaOut, qaParts, transferOut, ran, inbox, log, serverVars>>

\* a request to the ticket store fails: fetch rejects and the catch block
\* answers 500
ZendeskUnreachable(d) ==
    /\ hook[d].pc \in {"searching", "updating", "creating"}
    /\ Respond(d, 500, "error")
    /\ UNCHANGED <<call, tagsOut, qaOut, qaParts, transferOut, ran, inbox, log, tickets, serverVars>>

NextWebhook ==
    \E d \in Deliveries :
        \/ WebhookReceive(d)
        \/ ZendeskSearch(d)
        \/ ZendeskUpdate(d)
        \/ ZendeskCreate(d)
        \/ ZendeskUnreachable(d)

SpecWebhook == InitWebhook /\ [][NextWebhook]_vars

(***************************************************************************)
(* normalizeCallId and the callid_ tags built from it (server.js 65-68,    *)
(* 300-304, 362-364)                                                       *)
(***************************************************************************)
\* String.prototype.trim, by the first and the last character kept
TrimTo(s, keep) ==
    IF keep = {} THEN ""
    ELSE SubSeq(s, CHOOSE i \in keep : \A j \in keep : i <= j,
                   CHOOSE i \in keep : \A j \in keep : i >= j)

Trim(s) == TrimTo(s, {i \in 1..Len(s) : ~IsSpace(CharAt(s, i))})

\* the characters [a-zA-Z0-9_\-]
IdChars == WordChars \cup {"-"}

RECURSIVE ReplaceUnsafe(_)
\* raw.replace(/[^a-zA-Z0-9_\-]/g, "_")
ReplaceUnsafe(s) ==
    IF Len(s) = 0 THEN ""
    ELSE IF Len(s) = 1 THEN (IF s \in IdChars THEN s ELSE "_")
    ELSE ReplaceUnsafe(SubSeq(s, 1, Len(s) \div 2))
             \o ReplaceUnsafe(SubSeq(s, Len(s) \div 2 + 1, Len(s)))

\* (callId || "").toString() raises when toString is an own key of callId
normalizeCallIdThrows(callId) == ToStrThrows(Or(callId, Str("")))

normalizeCallId(callId) == ReplaceUnsafe(Trim(ToStr(Or(callId, Str("")))))

\* `callid_${normalizeCallId(call_id)}`
callIdTag(call_id) == "callid_" \o normalizeCallId(call_id)

\* /create-ticket: const tags = [...]; if (call_id) tags.push(callid tag)
createTicketTags(call_id) ==
    IF Truthy(call_id)
    THEN <<"retell_ai", "voice_bot", "ai_call_review", callIdTag(call_id)>>
    ELSE <<"retell_ai", "voice_bot", "ai_call_review">>

\* findTicketIdByCallIdTag: the tag searched, none for a falsy call_id
searchTags(call_id) == IF Truthy(call_id) THEN <<callIdTag(call_id)>> ELSE <<>>

MaxIdLen == 3

IdUnits == {"a", "Z", "7", "_", "-", " ", "/", Cy.a}

RECURSIVE IdTexts(_)
IdTexts(n) ==
    IF n = 0 THEN {""}
    ELSE IdTexts(n - 1) \cup {t \o u : t \in IdTexts(n - 1), u \in IdUnits}

CallIdInputs ==
    {Str(t) : t \in IdTexts(MaxIdLen)}
        \cup { Undef, Null, NaN, Num(0), Num(42), Bool(TRUE), Bool(FALSE), Obj(<<>>),
               Obj(<< <<"toString", Num(1)>> >>),
               Arr(<<Str("a b"), Num(1), Null>>),
               Arr(<<Obj(<< <<"toString", Num(1)>> >>)>>) }

InitCallId ==
    /\ arg \in CallIdInputs
    /\ result = NotRun
    /\ now = Undef
    /\ requests = <<>>
    /\ env = Undef
    /\ call = Undef
    /\ tagsOut = NotRun
    /\ qaOut = NotRun
    /\ qaParts = NotRun
    /\ transferOut = NotRun
    /\ ran = {}
    /\ inbox = <<>>
    /\ log = <<>>
    /\ tickets = <<>>
    /\ hook = <<>>

\* The outcome of a helper that coerces call_id.
IdOutcome(fn, out) ==
    IF normalizeCallIdThrows(arg) THEN [fn |-> fn, threw |-> TRUE, v |-> <<>>]
    ELSE [fn |-> fn, threw |-> FALSE, v |-> out]

NormalizeCallId ==
    /\ result' = IdOutcome("normalizeCallId", normalizeCallId(arg))
    /\ UNCHANGED <<call, tagsOut, qaOut, qaParts, transferOut, ran, inbox, log, tickets, hook,
                   arg, now, requests, env>>

CreateTicketTags ==
    /\ result' = (IF Truthy(arg) THEN IdOutcome("createTicketTags", createTicketTags(arg))
                  ELSE [fn |-> "createTicketTags", threw |-> FALSE, v |-> createTicketTags(arg)])
    /\ UNCHANGED <<call, tagsOut, qaOut, qaParts, transferOut, ran, inbox, log, tickets, hook,
                   arg, now, requests, env>>

SearchTags ==
    /\ result' = (IF Truthy(arg) THEN IdOutcome("searchTags", searchTags(arg))
                  ELSE [fn |-> "searchTags", threw |-> FALSE, v |-> searchTags(arg)])
    /\ UNCHANGED <<call, tagsOut, qaOut, qaParts, transferOut, ran, inbox, log, tickets, hook,
                   arg, now, requests, env>>

NextCallId == NormalizeCallId \/ CreateTicketTags \/ SearchTags

SpecCallId == InitCallId /\ [][NextCallId]_vars

(***************************************************************************)
(* The server of server.js: /create-ticket (344-402), /retell-webhook      *)
(* (409-482), zendeskRequest (268-293), findTicketIdByCallIdTag (300-315)  *)
(* and the ticket store they talk to.  A handler runs up to its next await *)
(* in one step; the answer of the ticket store is a step of its own, so    *)
(* requests interleave at the awaits.                                      *)
(***************************************************************************)
\* the em dash of the ticket subject, which a TLA+ string cannot hold
EmDash == "~"

\* /^[^\s@]+@[^\s@]+\.[^\s@]+$/.test(e)
EmailPattern(e) ==
    /\ \A i \in 1..Len(e) : ~IsSpace(CharAt(e, i))
    /\ \E p \in 2..Len(e) :
         /\ CharAt(e, p) = "@"
         /\ \A i \in 1..Len(e) : CharAt(e, i) = "@" => i = p
         /\ \E q \in (p + 2)..(Len(e) - 1) : CharAt(e, q) = "."

\* (email || "").trim() raises for a truthy email that is no string
isValidEmailThrows(email) == Truthy(email) /\ email.t # "string"

isValidEmail(email) == EmailPattern(Trim(Or(email, Str("")).v))

\* process.env without and with the credentials of the ticket store
Environments ==
    { [ZENDESK_SUBDOMAIN |-> Str("acme"), ZENDESK_EMAIL |-> Str("bot@acme.test"),
       ZENDESK_API_TOKEN |-> Str("t0ken")],
      [ZENDESK_SUBDOMAIN |-> Str("acme"), ZENDESK_EMAIL |-> Str("bot@acme.test"),
       ZENDESK_API_TOKEN |-> Undef] }

\* if (!subdomain || !email || !token) throw
missingEnv ==
    ~Truthy(env.ZENDESK_SUBDOMAIN) \/ ~Truthy(env.ZENDESK_EMAIL) \/ ~Truthy(env.ZENDESK_API_TOKEN)

\* encodeURIComponent on the characters a search query holds
EncodeUnit(c) == IF c = ":" THEN "%3A" ELSE IF c = " " THEN "%20" ELSE c

RECURSIVE encodeURIComponent(_)
\* (a text without a character to escape is returned as it is)
encodeURIComponent(s) ==
    IF \A i \in 1..Len(s) : EncodeUnit(CharAt(s, i)) = CharAt(s, i) THEN s
    ELSE IF Len(s) = 1 THEN EncodeUnit(s)
    ELSE encodeURIComponent(SubSeq(s, 1, Len(s) \div 2))
             \o encodeURIComponent(SubSeq(s, Len(s) \div 2 + 1, Len(s)))

\* the encoded start of every search query
SearchQuery == encodeURIComponent("type:ticket tags:")

\* `/search.json?query=${encodeURIComponent(`type:ticket tags:${tag}`)}`:
\* the encoding is character by character, so the tag is encoded apart
searchPath(tag) == "/search.json?query=" \o SearchQuery \o encodeURIComponent(tag)

\* `/tickets/${ticket_id}.json`
ticketPath(ticket_id) == "/tickets/" \o ToStr(ticket_id) \o ".json"

\* the body of a request without one
NoTicket == [subject |-> "", comment |-> [body |-> "", public |-> FALSE],
             tags |-> <<>>, additional_tags |-> <<>>, requester |-> Undef]

\* one answer of a handler
Response(status, success, skipped, ticket_id) ==
    [status |-> status, success |-> success, skipped |-> skipped, ticket_id |-> ticket_id]

\* res.json(...) / res.status(...).json(...) followed by return
Answer(d, response) ==
    hook' = [hook EXCEPT ![d].pc = "done", ![d].responses = Append(@, response)]

\* the catch block of a handler
Answer500(d) == Answer(d, Response(500, FALSE, "", Undef))

\* an answer of /retell-webhook when its local ticket_id holds id
Settle(d, id, response) ==
    hook' = [hook EXCEPT ![d].pc = "done", ![d].ticket_id = id,
                         ![d].responses = Append(@, response)]

\* zendeskRequest up to its await of fetch: without the credentials it
\* raises (the handler's catch answers 500), with them the request leaves
zendeskRequest(d, method, path, ticket, pc, ticket_id) ==
    IF missingEnv
    THEN Settle(d, ticket_id, Response(500, FALSE, "", Undef)) /\ UNCHANGED requests
    ELSE /\ requests' = Append(requests, [by |-> d, method |-> method, path |-> path,
                                           ticket |-> ticket])
         /\ hook' = [hook EXCEPT ![d].pc = pc, ![d].ticket_id = ticket_id]

\* the last request of d, the one the ticket store answers
sentBy(d) ==
    requests[CHOOSE i \in 1..Len(requests) :
                 requests[i].by = d /\ \A j \in (i + 1)..Len(requests) : requests[j].by # d]

\* raw.args || raw.arguments || raw.parameters || raw, raw = req.body || {}
argsOf(body) ==
    Or(Or(Or(Get(Or(body, Obj(<<>>)), "args"), Get(Or(body, Obj(<<>>)), "arguments")),
          Get(Or(body, Obj(<<>>)), "parameters")),
       Or(body, Obj(<<>>)))

\* `${x || fallback}`
Shown(x, fallback) == ToStr(Or(x, Str(fallback)))

bodyText(args) ==
    "Issue Description:\n" \o Shown(Get(args, "issue_description"), "N/A") \o "\n\n"
        \o "Customer Information:\n"
        \o "- Name: " \o Shown(Get(args, "name"), "N/A") \o "\n"
        \o "- Email: " \o Shown(Get(args, "email"), "N/A") \o "\n"
        \o "- Phone: " \o Shown(Get(args, "phone"), "N/A") \o "\n"
        \o "- Car Model: " \o Shown(Get(args, "car_model"), "N/A") \o "\n"
        \o "- Call ID: " \o Shown(Get(args, "call_id"), "N/A")

\* what raises before /create-ticket sends its request
createTicketThrows(args) ==
    \/ \E k \in {"issue_description", "name", "email", "phone", "car_model", "call_id"} :
           ToStrThrows(Get(args, k))
    \/ isValidEmailThrows(Get(args, "email"))

\* payload.ticket of /create-ticket
createPayload(args) ==
    [subject |-> "AI Voice Bot " \o EmDash \o " " \o Shown(Get(args, "name"), "Unknown"),
     comment |-> [body |-> bodyText(args), public |-> FALSE],
     tags |-> createTicketTags(Get(args, "call_id")),
     additional_tags |-> <<>>,
     requester |-> IF isValidEmail(Get(args, "email"))
                   THEN Obj(<< <<"name", Or(Get(args, "name"), Str("Customer"))>>,
                               <<"email", Str(Trim(Get(args, "email").v))>> >>)
                   ELSE Undef]

\* call.retell_llm_dynamic_variables?.ticket_id || call.metadata?.ticket_id
\*     || call.variables?.ticket_id
payloadTicketId(c) ==
    Or(Or(Get(Get(c, "retell_llm_dynamic_variables"), "ticket_id"),
          Get(Get(c, "metadata"), "ticket_id")),
       Get(Get(c, "variables"), "ticket_id"))

\* updatePayload.ticket of /retell-webhook
updatePayload(c) ==
    [subject |-> "",
     comment |-> [body |-> buildQaPayload(c), public |-> FALSE],
     tags |-> <<>>,
     additional_tags |-> computeTags(c),
     requester |-> Undef]

\* The requests of a run: one call of the create_ticket function and the
\* webhook deliveries that follow a call.
CreateTicketBodies ==
    { Obj(<< <<"args", Obj(<< <<"name", Str("Ann")>>, <<"email", Str("ann@x.io")>>,
                              <<"issue_description", Str("No charge")>>,
                              <<"call_id", Str("c 1")>> >>)>> >>),
      Obj(<< <<"call_id", Str("c 1")>> >>),
      Obj(<< <<"args", Obj(<< <<"name", Str("Ann")>> >>)>> >>),
      Obj(<< <<"args", Obj(<< <<"call_id", Str("c 1")>>, <<"email", Num(5)>> >>)>> >>) }

\* the body of /create-ticket for another call, whose call_id differs from
\* "c 1" in a character that normalizeCallId replaces
OtherCallBody == Obj(<< <<"call_id", Str("c_1")>> >>)

\* a call that ended early by the user's hangup
EndedCall(callId, transcript, extra) ==
    Obj(<< <<"call_id", callId>>, <<"transcript", transcript>>,
           <<"disconnection_reason", Str("user_hangup")>>, <<"duration_ms", Num(5000)>>,
           <<"call_analysis", Obj(<< <<"call_summary", Str("Charger offline")>> >>)>> >>
        \o extra)

TicketIdIn(k, id) == << <<k, Obj(<< <<"ticket_id", id>> >>)>> >>

AnalyzedCalls ==
    { EndedCall(Str("c 1"), Str("User: hello"), <<>>),
      EndedCall(Str("c 1"), Str("User: hello"), TicketIdIn("retell_llm_dynamic_variables", Num(1))),
      EndedCall(Str("c 1"), Str("User: hello"), TicketIdIn("metadata", Str("1"))),
      EndedCall(Str("c 1"), Str("User: hello"), TicketIdIn("variables", Num(9))),
      EndedCall(Undef, Str("User: hello"), <<>>),
      EndedCall(Str("c 1"), Obj(<< <<"toString", Num(1)>> >>), TicketIdIn("metadata", Num(1))),
      EndedCall(Obj(<< <<"toString", Num(1)>> >>), Str("User: hello"), <<>>) }

RetellBodies ==
    { Obj(<< <<"event", Str("call_analyzed")>>, <<"call", c>> >>) : c \in AnalyzedCalls }
        \cup { Obj(<< <<"event", Str("call_analyzed")>> >>),
               Obj(<< <<"event", Str("call_ended")>>,
                      <<"call", EndedCall(Str("c 1"), Str("User: hello"), <<>>)>> >>),
               Obj(<< <<"event", Str("call_started")>>,
                      <<"call", EndedCall(Str("c 1"), Undef,
                                          TicketIdIn("retell_llm_dynamic_variables", Num(1)))>> >>),
               Obj(<< <<"type", Str("call_analyzed")>>,
                      <<"call", EndedCall(Str("c 1"), Str("User: hello"), <<>>)>> >>),
               Obj(<< <<"call", EndedCall(Str("c 1"), Str("User: hello"), <<>>)>> >>),
               Obj(<< <<"event", Obj(<< <<"toString", Num(1)>> >>)>>,
                      <<"call", EndedCall(Str("c 1"), Str("User: hello"), <<>>)>> >>) }

\* What a handler computes from a request body depends on the body alone:
\* it is tabulated here over the bodies that can arrive.
DeliveredCalls == {Get(b, "call") : b \in RetellBodies}

\* buildQaPayload(call) and computeTags(call) in updatePayload (450-463)
qaOf ==
    [c \in DeliveredCalls |->
        IF buildQaPayloadThrows(c) \/ computeTagsThrows(c) THEN Threw
        ELSE Returned(updatePayload(c))]

\* the search request of findTicketIdByCallIdTag(call.call_id) (303-305)
searchOf ==
    [c \in DeliveredCalls |->
        IF normalizeCallIdThrows(Get(c, "call_id")) THEN Threw
        ELSE Returned(searchPath(callIdTag(Get(c, "call_id"))))]

\* payload of /create-ticket (348-381)
createOf ==
    [b \in CreateTicketBodies \cup {OtherCallBody} |->
        IF createTicketThrows(argsOf(b)) THEN Threw ELSE Returned(createPayload(argsOf(b)))]

\* /retell-webhook from the ticket id to the await of the update (450-469)
attachQa(d, c, ticket_id) ==
    IF qaOf[c].threw \/ ToStrThrows(ticket_id)
    THEN Settle(d, ticket_id, Response(500, FALSE, "", Undef)) /\ UNCHANGED requests
    ELSE zendeskRequest(d, "PUT", ticketPath(ticket_id), qaOf[c].v, "updating", ticket_id)

\* a webhook that opens a ticket of its own when it has no ticket id
attachOrSkip_Creates(d, c, ticket_id) ==
    \E id \in {ticket_id} :
        IF Truthy(id) THEN attachQa(d, c, id)
        ELSE IF qaOf[c].threw
        THEN Settle(d, id, Response(500, FALSE, "", Undef)) /\ UNCHANGED requests
        ELSE zendeskRequest(d, "POST", "/tickets.json", qaOf[c].v, "creating", id)

\* if (!ticket_id) return res.json({success: true, skipped: ...}), else attach
attachOrSkip(d, c, ticket_id) ==
    \E id \in {ticket_id} :
        IF ~Truthy(id)
        THEN Settle(d, id, Response(200, TRUE, "no_ticket_to_update", Undef)) /\ UNCHANGED requests
        ELSE attachQa(d, c, id)

\* findTicketIdByCallIdTag(call.call_id) up to its await of the search
findTicketIdByCallIdTag(d, c, ticket_id) ==
    IF searchOf[c].threw
    THEN Settle(d, ticket_id, Response(500, FALSE, "", Undef)) /\ UNCHANGED requests
    ELSE zendeskRequest(d, "GET", searchOf[c].v, NoTicket, "searching", ticket_id)

\* body.event || body.type || "unknown"
eventOf(body) == Or(Or(Get(body, "event"), Get(body, "type")), Str("unknown"))

\* /retell-webhook without the event filter of lines 428-430
handleCall_AnyEvent(d, event, c) ==
    \E ticket_id \in {payloadTicketId(c)} :
        IF ~Truthy(ticket_id) /\ Truthy(Get(c, "call_id"))
        THEN findTicketIdByCallIdTag(d, c, ticket_id)
        ELSE attachOrSkip(d, c, ticket_id)

\* /retell-webhook from the event filter on (427-469)
handleCall(d, event, c) ==
    IF ~StrictEq(event, Str("call_analyzed"))
    THEN /\ IF ToStrThrows(event) THEN Answer500(d)
            ELSE Answer(d, Response(200, TRUE, "event_" \o ToStr(event), Undef))
         /\ UNCHANGED requests
    ELSE \E ticket_id \in {payloadTicketId(c)} :
             IF ~Truthy(ticket_id) /\ Truthy(Get(c, "call_id"))
             THEN findTicketIdByCallIdTag(d, c, ticket_id)
             ELSE attachOrSkip(d, c, ticket_id)

\* the request of d has arrived and its handler has not started
Waiting == [pc |-> "received", ticket_id |-> Undef, responses |-> <<>>]

\* /retell-webhook without the return of line 425: the answer is sent, the
\* handler goes on, reads a field of the absent call and its catch block
\* answers again
RetellWebhook_NoReturn(d) ==
    /\ hook[d].pc = "received"
    /\ inbox[d].path = "/retell-webhook"
    /\ IF ~Truthy(Get(Or(inbox[d].body, Obj(<<>>)), "call"))
       THEN /\ hook' = [hook EXCEPT ![d].pc = "done",
                                    ![d].responses = @ \o <<Response(200, TRUE, "", Undef),
                                                            Response(500, FALSE, "", Undef)>>]
            /\ UNCHANGED requests
       ELSE \E c \in {Get(Or(inbox[d].body, Obj(<<>>)), "call")} :
                handleCall(d, eventOf(Or(inbox[d].body, Obj(<<>>))), c)
    /\ UNCHANGED <<call, tagsOut, qaOut, qaParts, transferOut, ran, inbox, log, tickets,
                   arg, result, now, env>>

\* POST /retell-webhook up to its first await or its answer
RetellWebhook(d) ==
    /\ hook[d].pc = "received"
    /\ inbox[d].path = "/retell-webhook"
    /\ IF ~Truthy(Get(Or(inbox[d].body, Obj(<<>>)), "call"))
       THEN Answer(d, Response(200, TRUE, "", Undef)) /\ UNCHANGED requests
       ELSE \E c \in {Get(Or(inbox[d].body, Obj(<<>>)), "call")} :
                handleCall(d, eventOf(Or(inbox[d].body, Obj(<<>>))), c)
    /\ UNCHANGED <<call, tagsOut, qaOut, qaParts, transferOut, ran, inbox, log, tickets,
                   arg, result, now, env>>

\* POST /create-ticket up to its await or its answer
CreateTicket(d) ==
    /\ hook[d].pc = "received"
    /\ inbox[d].path = "/create-ticket"
    /\ IF createOf[inbox[d].body].threw
       THEN Answer500(d) /\ UNCHANGED requests
       ELSE zendeskRequest(d, "POST", "/tickets.json", createOf[inbox[d].body].v,
                           "creating", Undef)
    /\ UNCHANGED <<call, tagsOut, qaOut, qaParts, transferOut, ran, inbox, log, tickets,
                   arg, result, now, env>>

\* What the ticket store does with a request (log keeps the answers each
\* request got): it answers with an ok status
\* and the documented body, with an ok status and the body null, with
\* another status, or the connection fails and fetch rejects.
StoreReplies == {"ok", "ok_null", "not_ok", "rejects"}

\* the members of xs that are neither in set nor earlier in xs
Fresh(set, xs) ==
    SelectSeq([i \in 1..Len(xs) |-> i],
              LAMBDA i : ~SetHas(set, xs[i]) /\ \A j \in 1..(i - 1) : xs[j] # xs[i])

\* the tags of a ticket after the tags xs are added to it: each tag once
AddAll(set, xs) == set \o [k \in 1..Len(Fresh(set, xs)) |-> xs[Fresh(set, xs)[k]]]

\* the tickets a search by tag finds, in the order of the store
storeSearch(path) ==
    SelectSeq(tickets, LAMBDA t : \E i \in 1..Len(t.tags) : searchPath(t.tags[i]) = path)

\* the ticket store creates the ticket of a POST /tickets.json
storeCreate(ticket) ==
    Append(tickets, [id |-> Len(tickets) + 1, tags |-> AddAll(<<>>, ticket.tags),
                     comments |-> <<ticket.comment>>, requester |-> ticket.requester])

\* the ticket store applies a PUT /tickets/<id>.json: the comment is added,
\* tags (when the payload has them) replace the tags of the ticket and
\* additional_tags are added to them
storeUpdate(path, ticket) ==
    [i \in 1..Len(tickets) |->
        IF ticketPath(Num(tickets[i].id)) = path
        THEN [tickets[i] EXCEPT !.comments = Append(@, ticket.comment),
                                !.tags = AddAll(IF ticket.tags = <<>> THEN @ ELSE ticket.tags,
                                                ticket.additional_tags)]
        ELSE tickets[i]]

storeHas(path) == \E i \in 1..Len(tickets) : ticketPath(Num(tickets[i].id)) = path

\* the answer to the POST of /create-ticket and the rest of the handler
CreateAnswered(d, reply) ==
    /\ hook[d].pc = "creating"
    /\ tickets' = IF reply \in {"ok", "ok_null"} THEN storeCreate(sentBy(d).ticket) ELSE tickets
    /\ IF reply = "ok"
       THEN Answer(d, Response(200, TRUE, "", Num(Len(tickets) + 1)))
       ELSE Answer500(d)
    /\ log' = [log EXCEPT ![d] = Append(@, reply)]
    /\ UNCHANGED <<call, tagsOut, qaOut, qaParts, transferOut, ran, inbox, requests,
                   arg, result, now, env>>

\* first?.id || null of the search results
firstId(results) == IF Len(results) = 0 THEN Null ELSE Num(results[1].id)

\* the answer to the search and the handler up to its next await
SearchAnswered(d, reply) ==
    /\ hook[d].pc = "searching"
    /\ IF reply = "rejects"
       THEN Answer500(d) /\ UNCHANGED requests
       ELSE \E c \in {Get(inbox[d].body, "call")} :
                attachOrSkip(d, c, IF reply = "ok" THEN firstId(storeSearch(sentBy(d).path))
                                   ELSE Null)
    /\ log' = [log EXCEPT ![d] = Append(@, reply)]
    /\ UNCHANGED <<call, tagsOut, qaOut, qaParts, transferOut, ran, inbox, tickets,
                   arg, result, now, env>>

\* /retell-webhook without the test of ok at line 471: whatever the status
\* of the answer, the handler goes on to answer success
UpdateAnswered_StatusIgnored(d, reply) ==
    /\ hook[d].pc = "updating"
    /\ reply \in {"ok", "ok_null"} => storeHas(sentBy(d).path)
    /\ tickets' = IF reply \in {"ok", "ok_null"}
                  THEN storeUpdate(sentBy(d).path, sentBy(d).ticket) ELSE tickets
    /\ IF reply \in {"ok", "not_ok"}
       THEN Answer(d, Response(200, TRUE, "", Undef))
       ELSE Answer500(d)
    /\ log' = [log EXCEPT ![d] = Append(@, reply)]
    /\ UNCHANGED <<call, tagsOut, qaOut, qaParts, transferOut, ran, inbox, requests,
                   arg, result, now, env>>

\* the answer to the update and the rest of the handler
UpdateAnswered(d, reply) ==
    /\ hook[d].pc = "updating"
    /\ reply \in {"ok", "ok_null"} => storeHas(sentBy(d).path)
    /\ tickets' = IF reply \in {"ok", "ok_null"}
                  THEN storeUpdate(sentBy(d).path, sentBy(d).ticket) ELSE tickets
    /\ IF reply = "ok"
       THEN Answer(d, Response(200, TRUE, "", Undef))
       ELSE Answer500(d)
    /\ log' = [log EXCEPT ![d] = Append(@, reply)]
    /\ UNCHANGED <<call, tagsOut, qaOut, qaParts, transferOut, ran, inbox, requests,
                   arg, result, now, env>>

ServerRequests == {1, 2, 3}

Inboxes ==
    { [d \in ServerRequests |->
          IF d = 1 THEN [path |-> "/create-ticket", body |-> c]
          ELSE IF d = 2 THEN w
          ELSE [path |-> "/retell-webhook", body |-> v]] :
      c \in CreateTicketBodies,
      w \in {[path |-> "/retell-webhook", body |-> b] : b \in RetellBodies}
                 \cup {[path |-> "/create-ticket", body |-> OtherCallBody]},
      v \in RetellBodies }

InitServer ==
    /\ inbox \in Inboxes
    /\ env \in Environments
    /\ hook = [d \in ServerRequests |-> Waiting]
    /\ tickets = <<>>
    /\ requests = <<>>
    /\ arg = Undef
    /\ result = NotRun
    /\ now = Undef
    /\ call = Undef
    /\ tagsOut = NotRun
    /\ qaOut = NotRun
    /\ qaParts = NotRun
    /\ transferOut = NotRun
    /\ ran = {}
    /\ log = [d \in ServerRequests |-> <<>>]

NextServer ==
    \E d \in ServerRequests :
        \/ CreateTicket(d)
        \/ RetellWebhook(d)
        \/ \E reply \in StoreReplies :
               \/ CreateAnswered(d, reply)
               \/ SearchAnswered(d, reply)
               \/ UpdateAnswered(d, reply)

SpecServer == InitServer /\ [][NextServer]_vars

\* Express runs the handler of every request that arrived, and the event
\* loop resumes a handler once its fetch has settled; every fetch is taken
\* to settle (the ticket store answers or the connection fails).  A request
\* takes at most three steps, so a step of some request as long as one is
\* possible brings every request to its end.
SpecServerFair == SpecServer /\ WF_vars(NextServer)

(***************************************************************************)
(* Business hours: getBusinessHoursNow (105-136) and /check-business-hours *)
(* (323-337).  now is the wall clock of America/Los_Angeles at the moment  *)
(* of the request, with what Intl does in the build: it names midnight 00  *)
(* (hour cycle h23) or 24 (h24, the reading of hour12: false in some ICU   *)
(* versions), or it has no data for the time zone and raises RangeError.   *)
(***************************************************************************)
BH_TIMEZONE == "America/Los_Angeles"
BH_OPEN_HOUR == 8
BH_CLOSE_HOUR == 20
BH_OPEN_MIN == 0
BH_CLOSE_MIN == 0

\* weekday: "short" of en-US, from Sunday
ShortDays == <<"Sun", "Mon", "Tue", "Wed", "Thu", "Fri", "Sat">>

\* "2-digit" of Intl and padStart(2, "0")
Pad2(n) == IF n < 10 THEN "0" \o NatToStr(n) ELSE NatToStr(n)

\* fmt.formatToParts(now)
formatToParts(n) ==
    [weekday |-> ShortDays[n.weekday + 1],
     hour |-> Pad2(IF n.hour = 0 /\ n.intl = "h24" THEN 24 ELSE n.hour),
     minute |-> Pad2(n.minute)]

\* parseInt(s, 10) of a text of digits
parseInt10(s) == DigitsToNat(s)

isWorkingDay(weekday) == weekday \in {"Mon", "Tue", "Wed", "Thu", "Fri", "Sat"}

afterOpen(hh, mm) == hh > BH_OPEN_HOUR \/ (hh = BH_OPEN_HOUR /\ mm >= BH_OPEN_MIN)

\* a closing time that is still inside
beforeClose_Inclusive(hh, mm) == hh <= BH_CLOSE_HOUR

beforeClose(hh, mm) == hh < BH_CLOSE_HOUR \/ (hh = BH_CLOSE_HOUR /\ mm < BH_CLOSE_MIN)

hoursInfo(weekday, hh, mm) ==
    [business_hours |-> isWorkingDay(weekday) /\ afterOpen(hh, mm) /\ beforeClose(hh, mm),
     weekday |-> weekday,
     time_hhmm |-> Pad2(hh) \o ":" \o Pad2(mm),
     timezone |-> BH_TIMEZONE,
     error |-> FALSE]

getBusinessHoursNowThrows(n) == n.intl = "throws"

getBusinessHoursNow(n) ==
    hoursInfo(formatToParts(n).weekday, parseInt10(formatToParts(n).hour),
              parseInt10(formatToParts(n).minute))

\* the fallback of the catch in /check-business-hours
hoursFallback ==
    [business_hours |-> FALSE, weekday |-> "Unknown", time_hhmm |-> "00:00",
     timezone |-> BH_TIMEZONE, error |-> TRUE]

Clocks ==
    [weekday : 0..6, hour : 0..23, minute : 0..59, intl : {"h23", "h24", "throws"}]

InitHours ==
    /\ now \in Clocks
    /\ result = NotRun
    /\ arg = Undef
    /\ requests = <<>>
    /\ env = Undef
    /\ call = Undef
    /\ tagsOut = NotRun
    /\ qaOut = NotRun
    /\ qaParts = NotRun
    /\ transferOut = NotRun
    /\ ran = {}
    /\ inbox = <<>>
    /\ log = <<>>
    /\ tickets = <<>>
    /\ hook = <<>>

GetBusinessHoursNow ==
    /\ result' = (IF getBusinessHoursNowThrows(now)
                  THEN [fn |-> "getBusinessHoursNow", threw |-> TRUE, v |-> <<>>]
                  ELSE [fn |-> "getBusinessHoursNow", threw |-> FALSE,
                        v |-> getBusinessHoursNow(now)])
    /\ UNCHANGED <<call, tagsOut, qaOut, qaParts, transferOut, ran, inbox, log, tickets, hook,
                   arg, now, requests, env>>

\* POST /check-business-hours: res.json(info), or the fallback of the catch
CheckBusinessHours ==
    /\ result' = [fn |-> "/check-business-hours", threw |-> FALSE,
                  v |-> IF getBusinessHoursNowThrows(now) THEN hoursFallback
                        ELSE getBusinessHoursNow(now)]
    /\ UNCHANGED <<call, tagsOut, qaOut, qaParts, transferOut, ran, inbox, log, tickets, hook,
                   arg, now, requests, env>>

NextHours == GetBusinessHoursNow \/ CheckBusinessHours

SpecHours == InitHours /\ [][NextHours]_vars

(***************************************************************************)
(* Properties of computeTags                                               *)
(***************************************************************************)
\* computeTags(call) has returned its tag list
TagsReturned == "computeTags" \in ran /\ ~tagsOut.threw

HasTag(x) == SetHas(tagsOut.v, x)

OutcomeTags == {"ai_resolved", "ai_failed"}

\* the signals of the call, as the claims name them
Transferred == didTransfer(call)
RequestedHuman == detectRequestedHuman(Or(Get(call, "transcript"), Str("")))
SentimentLowered == safeLower(Get(getCallAnalysisObject(call), "user_sentiment"))
CallSuccessful == Get(getCallAnalysisObject(call), "call_successful")
DurationMs == ToNumber(Get(call, "duration_ms"))
ReasonLowered == safeLower(Get(call, "disconnection_reason"))
UserInitiated == Includes(ReasonLowered, "user") \/ Includes(ReasonLowered, "client")

\* 0 < duration_ms / 1000 < 20
ShortDuration ==
    /\ DurationMs.t = "number"
    /\ DurationMs.v > 0
    /\ DurationMs.v < EARLY_HANGUP_THRESHOLD_SEC * 1000

\* C1: the tag list computeTags returns holds exactly one of the outcome
\* tags ai_resolved and ai_failed, for every CallRecord.
C1_ExactlyOneOutcome ==
    TagsReturned =>
        Cardinality({i \in 1..Len(tagsOut.v) : tagsOut.v[i] \in OutcomeTags}) = 1

C1_Witness ==
    /\ TagsReturned
    /\ HasTag("ai_failed")
    /\ TypeOf(Get(call, "call_analysis")) = "string"
    /\ Get(call, "transcript") = Undef

\* C2 (as claimed): whenever didTransfer(call) is true the outcome tag is
\* ai_failed, whatever the other signals are.
C2_TransferForcesFailed == (TagsReturned /\ Transferred) => HasTag("ai_failed")

\* C3: without the ai_early_hangup tag the outcome is ai_failed exactly when
\* a transfer was detected, a human was requested, the lower-cased sentiment
\* is "negative", call_successful is the boolean false or ai_hangup is
\* present, and ai_resolved otherwise.
C3_FailedIffRule ==
    (TagsReturned /\ ~HasTag("ai_early_hangup")) =>
        LET cause == \/ Transferred
                     \/ RequestedHuman
                     \/ SentimentLowered = "negative"
                     \/ CallSuccessful = Bool(FALSE)
                     \/ HasTag("ai_hangup")
        IN  /\ HasTag("ai_failed") <=> cause
            /\ HasTag("ai_resolved") <=> ~cause

C3_Witness ==
    /\ TagsReturned
    /\ ~HasTag("ai_early_hangup")
    /\ CallSuccessful = Str("false")
    /\ HasTag("ai_resolved")

\* C4: a user-initiated hangup with 0 < duration_ms / 1000 < 20, a sentiment
\* other than "negative" and no escalation request is tagged ai_resolved,
\* ai_early_hangup and ai_no_chance, whatever call_successful is.
C4_EarlyHangupResolved ==
    (TagsReturned /\ UserInitiated /\ ShortDuration
       /\ SentimentLowered # "negative" /\ ~RequestedHuman) =>
        /\ HasTag("ai_resolved")
        /\ HasTag("ai_early_hangup")
        /\ HasTag("ai_no_chance")

C4_Witness ==
    /\ TagsReturned /\ UserInitiated /\ ShortDuration
    /\ SentimentLowered # "negative" /\ ~RequestedHuman
    /\ CallSuccessful = Bool(FALSE)
    /\ HasTag("ai_no_chance")

\* C5: an early hangup whose lower-cased sentiment is "negative" is tagged
\* ai_failed and not ai_no_chance.
C5_EarlyNegativeFailed ==
    (TagsReturned /\ UserInitiated /\ ShortDuration /\ SentimentLowered = "negative") =>
        /\ HasTag("ai_failed")
        /\ ~HasTag("ai_no_chance")

C5_Witness ==
    /\ TagsReturned /\ UserInitiated /\ ShortDuration
    /\ Get(getCallAnalysisObject(call), "user_sentiment") = Str("Negative")
    /\ ~Transferred /\ ~RequestedHuman
    /\ HasTag("ai_early_hangup")

\* C6: an early hangup whose transcript requests a human is tagged ai_failed,
\* ai_early_hangup and requested_human and not ai_no_chance, also with a
\* neutral or positive sentiment.
C6_EarlyRequestFailed ==
    (TagsReturned /\ UserInitiated /\ ShortDuration /\ RequestedHuman) =>
        /\ HasTag("ai_failed")
        /\ HasTag("ai_early_hangup")
        /\ HasTag("requested_human")
        /\ ~HasTag("ai_no_chance")

C6_Witness ==
    /\ TagsReturned /\ UserInitiated /\ ShortDuration /\ RequestedHuman
    /\ SentimentLowered = "neutral"
    /\ ~Transferred
    /\ HasTag("ai_early_hangup")

\* C7: with duration_ms 0 or absent ai_early_hangup is never added, and a
\* user-initiated disconnection is tagged ai_hangup.
C7_ZeroDurationNotEarly ==
    (TagsReturned /\ Get(call, "duration_ms") \in {Undef, Num(0)}) =>
        /\ ~HasTag("ai_early_hangup")
        /\ UserInitiated => HasTag("ai_hangup")

C7_Witness ==
    /\ TagsReturned
    /\ Get(call, "duration_ms") = Num(0)
    /\ UserInitiated
    /\ HasTag("ai_hangup")

\* C8: a user-initiated disconnection gets exactly one of ai_early_hangup
\* and ai_hangup: ai_early_hangup exactly when 0 < duration_ms / 1000 < 20,
\* so 20000 ms is a late hangup and 19999 ms an early one.
C8_HangupThreshold ==
    (TagsReturned /\ UserInitiated) =>
        /\ HasTag("ai_early_hangup") <=> ShortDuration
        /\ HasTag("ai_hangup") <=> ~ShortDuration
        /\ Get(call, "duration_ms") = Num(20000) => HasTag("ai_hangup")
        /\ Get(call, "duration_ms") = Num(19999) => HasTag("ai_early_hangup")

C8_Witness ==
    /\ TagsReturned /\ UserInitiated
    /\ Get(call, "duration_ms") = Num(20000)
    /\ HasTag("ai_hangup")

\* C9: with disconnection_reason missing or naming neither "user" nor
\* "client" no hangup tag and no ai_no_chance is added, for every duration,
\* and without a transfer, an escalation request, a negative sentiment and
\* call_successful = false the outcome is ai_resolved.
C9_NoHangupWithoutUser ==
    (TagsReturned /\ ~UserInitiated) =>
        /\ ~HasTag("ai_hangup")
        /\ ~HasTag("ai_early_hangup")
        /\ ~HasTag("ai_no_chance")
        /\ (~Transferred /\ ~RequestedHuman /\ SentimentLowered # "negative"
              /\ CallSuccessful # Bool(FALSE)) => HasTag("ai_resolved")

C9_Witness ==
    /\ TagsReturned
    /\ Get(call, "disconnection_reason") = Str("agent_hangup")
    /\ ShortDuration
    /\ HasTag("ai_resolved")

\* the voicemail flag of the call analysis computeTags reads
VoicemailFlag == Get(getCallAnalysisObject(call), "in_voicemail")

\* C13: computeTags adds exactly one of voicemail_yes and voicemail_no, and
\* voicemail_yes only when call_analysis.in_voicemail is the boolean true:
\* an absent flag and every value that is no boolean give voicemail_no.
C13_VoicemailOnlyOnTrue ==
    TagsReturned =>
        /\ HasTag("voicemail_yes") # HasTag("voicemail_no")
        /\ HasTag("voicemail_yes") <=> (VoicemailFlag = Bool(TRUE))

\* the transcript absent or empty
NoTranscript == Get(call, "transcript") \in {Undef, Null, Str("")}

\* C14: the tag list holds requested_human exactly when
\* detectRequestedHuman(transcript) is true, whatever the outcome tag is; an
\* empty or absent transcript never gives requested_human.
C14_RequestedHumanIff ==
    TagsReturned =>
        /\ HasTag("requested_human") <=> RequestedHuman
        /\ NoTranscript => ~HasTag("requested_human")

\* the caller asks for a human in a call the analysis marks successful
C14_Witness ==
    /\ TagsReturned
    /\ Get(call, "transcript") = Str("I want to speak to a HUMAN")
    /\ CallSuccessful = Bool(TRUE)
    /\ ~Transferred
    /\ HasTag("requested_human")
    /\ HasTag("ai_failed")

\* C15: for every CallRecord the tag list holds the three identity tags
\* retell_ai, voice_bot and ai_call_review and holds no tag twice, also when
\* a derived tag (calltype_<x>, sentiment_<x>) is built from a field value
\* the sender chose.
C15_IdentityAndNoDuplicates ==
    TagsReturned =>
        /\ HasTag("retell_ai") /\ HasTag("voice_bot") /\ HasTag("ai_call_review")
        /\ \A i, j \in 1..Len(tagsOut.v) : tagsOut.v[i] = tagsOut.v[j] => i = j

\* the sender's sentiment text builds the very tag of a missing sentiment
C15_Witness ==
    /\ TagsReturned
    /\ SentimentLowered = "unknown"
    /\ HasTag("sentiment_unknown")
    /\ HasTag("ai_call_review")

\* C16: classification is total: computeTags and buildQaPayload return a
\* value without raising for every input, whatever fields are absent, null
\* or of an unexpected shape.
C16_ClassificationTotal ==
    /\ "computeTags" \in ran => ~tagsOut.threw
    /\ "buildQaPayload" \in ran => ~qaOut.threw

(***************************************************************************)
(* Properties of buildQaPayload                                            *)
(***************************************************************************)
\* buildQaPayload(call) has returned its text
QaReturned == "buildQaPayload" \in ran /\ ~qaOut.threw

\* C10: the text buildQaPayload returns is never longer than
\* MAX_QA_BODY_CHARS, whatever the lengths of the transcript, the summary,
\* the serialized variables and the metadata fields are.
C10_QaWithinCap == QaReturned => Len(qaOut.v) <= MAX_QA_BODY_CHARS

C10_Witness ==
    /\ QaReturned
    /\ Len(qaBodyOf(call)) = MAX_QA_BODY_CHARS + 1
    /\ Len(qaOut.v) = MAX_QA_BODY_CHARS


\* the texts the three sections are cut from
TranscriptInput == ToStr(Or(Get(call, "transcript"), Str("")))
SummaryInput == ToStr(Or(callSummaryRawOf(getCallAnalysisObject(call)), Str("")))
VarsInput ==
    Stringify(Coalesce(Or(Get(call, "collected_dynamic_variables"), Obj(<<>>)), Obj(<<>>)), "")
VarsSerializable ==
    ~StringifyThrows(Coalesce(Or(Get(call, "collected_dynamic_variables"), Obj(<<>>)), Obj(<<>>)))

EndsWith(s, suffix) ==
    Len(s) >= Len(suffix) /\ SubSeq(s, Len(s) - Len(suffix) + 1, Len(s)) = suffix

\* part is input cut to cap: a longer input is rendered within the cap and
\* ends with the marker, a shorter one is rendered as it is
CutTo(input, part, cap) ==
    IF Len(input) > cap
    THEN Len(part) <= cap /\ EndsWith(part, TruncationSuffix)
    ELSE part = input

\* C11: each of the three sections of the report (transcript, variables
\* JSON, call summary) is cut to its own cap: a section whose input is
\* longer than its cap is rendered within the cap and ends with the
\* truncation marker, a section whose input is within its cap is rendered
\* unchanged.
C11_SectionsCutToOwnCap ==
    QaReturned =>
        /\ CutTo(TranscriptInput, qaParts.v.transcript, MAX_TRANSCRIPT_CHARS)
        /\ CutTo(SummaryInput, qaParts.v.callSummary, MAX_CALL_SUMMARY_CHARS)
        /\ VarsSerializable => CutTo(VarsInput, qaParts.v.varsJson, MAX_VARS_JSON_CHARS)

\* a long transcript and long variables are cut next to a summary that is
\* exactly at its cap and is left alone
C11_Witness ==
    /\ QaReturned
    /\ Len(TranscriptInput) > MAX_TRANSCRIPT_CHARS
    /\ EndsWith(qaParts.v.transcript, TruncationSuffix)
    /\ Len(SummaryInput) = MAX_CALL_SUMMARY_CHARS
    /\ qaParts.v.callSummary = SummaryInput
    /\ VarsSerializable
    /\ Len(VarsInput) = MAX_VARS_JSON_CHARS + 1
    /\ Len(qaParts.v.varsJson) = MAX_VARS_JSON_CHARS


(***************************************************************************)
(* Properties of didTransfer                                               *)
(***************************************************************************)
TransferReturned == "didTransfer" \in ran /\ ~transferOut.threw

\* the entries of collection k of the call, none when it is not an array
EntriesOf(k) == IF Get(call, k).t = "array" THEN Get(call, k).v ELSE <<>>

\* the name of entry e contains "transfer" in any letter case
NamesTransfer(e) ==
    /\ Get(e, "name").t = "string"
    /\ \E i \in 1..(Len(Get(e, "name").v) - 7) :
           Lower(SubSeq(Get(e, "name").v, i, i + 7)) = "transfer"

InvocationHit ==
    \E i \in 1..Len(EntriesOf("transcript_with_tool_calls")) :
        LET e == EntriesOf("transcript_with_tool_calls")[i]
        IN  Get(e, "role") = Str("tool_call_invocation") /\ NamesTransfer(e)

ToolCallHit ==
    \E i \in 1..Len(EntriesOf("tool_calls")) : NamesTransfer(EntriesOf("tool_calls")[i])

\* C12: didTransfer(call) is true exactly when transcript_with_tool_calls
\* is an array holding an event of role tool_call_invocation whose name
\* contains "transfer" in any letter case, or tool_calls is an array holding
\* an entry whose name does; collections that are absent or no arrays give
\* false, and an event of another role in transcript_with_tool_calls does
\* not count.
C12_DidTransferIff ==
    TransferReturned => (transferOut.v <=> (InvocationHit \/ ToolCallHit))

\* transcript_with_tool_calls names a transfer under another role only and
\* tool_calls is no array: the answer is false
C12_Witness ==
    /\ TransferReturned
    /\ \E i \in 1..Len(EntriesOf("transcript_with_tool_calls")) :
           NamesTransfer(EntriesOf("transcript_with_tool_calls")[i])
    /\ ~InvocationHit
    /\ Get(call, "tool_calls") = Str("transfer")
    /\ transferOut.v = FALSE


\* the call with an empty map for its collected_dynamic_variables
SerializableTwin ==
    Obj([i \in 1..Len(call.v) |->
            IF call.v[i][1] = "collected_dynamic_variables"
            THEN <<"collected_dynamic_variables", Obj(<<>>)>>
            ELSE call.v[i]])

\* C17: when serializing collected_dynamic_variables fails (a circular
\* map), buildQaPayload does not raise for it: the variables section is the
\* fixed placeholder error block and every other section of the report is
\* rendered as it is for a serializable map.  The variables JSON is entry
\* 10 of the report's lines.
C17_UnserializableVarsDegrade ==
    ("buildQaPayload" \in ran /\ call.t = "object" /\ ~VarsSerializable) =>
        /\ qaOut.threw = buildQaPayloadThrows(SerializableTwin)
        /\ ~qaOut.threw =>
              /\ qaParts.v.varsJson = StringifyFailed
              /\ qaParts.v.transcript = qaSections(SerializableTwin).transcript
              /\ qaParts.v.callSummary = qaSections(SerializableTwin).callSummary
              /\ qaOut.v =
                    truncate(Str(JoinWith([qaLines(SerializableTwin) EXCEPT ![10] = StringifyFailed],
                                          "\n")),
                             MAX_QA_BODY_CHARS)

\* a circular map next to a summary from a JSON text and a cut transcript
C17_Witness ==
    /\ QaReturned
    /\ Get(call, "collected_dynamic_variables") = Obj(<< <<"self", Cycle>> >>)
    /\ qaParts.v.varsJson = StringifyFailed
    /\ qaParts.v.callSummary = "Billing question"
    /\ EndsWith(qaParts.v.transcript, TruncationSuffix)


\* field k of the call is missing
Missing(k) == Get(call, k) \in {Undef, Null}

\* the call analysis was read and carries no summary
SummaryMissing ==
    LET ca == getCallAnalysisObject(call)
    IN  /\ Get(ca, "__parse_error") = Undef
        /\ Get(ca, "call_summary") \in {Undef, Null}
        /\ Get(ca, "call_summary_text") \in {Undef, Null}

\* line i of the report: the label and N/A when field k is missing
FieldLine(label, k, i) == IF Missing(k) THEN label \o "N/A" ELSE qaLines(call)[i]

\* the report with its four headers in their places and N/A for every
\* missing field; a field that is present is rendered as buildQaPayload
\* renders it
ExpectedLines ==
    << "=== AI VOICE CALL REVIEW ===",
       FieldLine("Call ID: ", "call_id", 2),
       FieldLine("Agent Name: ", "agent_name", 3),
       FieldLine("Call Type: ", "call_type", 4),
       qaLines(call)[5],
       FieldLine("Start timestamp: ", "start_timestamp", 6),
       FieldLine("End timestamp: ", "end_timestamp", 7),
       "",
       "=== COLLECTED VARIABLES ===",
       qaLines(call)[10],
       "",
       "=== CALL SUMMARY (from Retell call_analysis) ===",
       IF SummaryMissing THEN "N/A" ELSE qaLines(call)[13],
       "",
       "=== FULL TRANSCRIPT ===",
       FieldLine("", "transcript", 16) >>

\* C18: a report below the overall cap carries the four section headers
\* (call review, collected variables, call summary, full transcript) in
\* that order, and every missing field (call_id, agent_name, call_type,
\* start and end timestamp, call summary, transcript) is rendered as N/A
\* instead of being left out.
C18_HeadersAndPlaceholders ==
    (QaReturned /\ Len(qaOut.v) < MAX_QA_BODY_CHARS) =>
        qaOut.v = JoinWith(ExpectedLines, "\n")

\* a record without identity, metadata and summary whose variables are at
\* their cap
C18_Witness ==
    /\ QaReturned
    /\ Len(qaOut.v) < MAX_QA_BODY_CHARS
    /\ call.t = "object"
    /\ \A k \in {"call_id", "agent_name", "call_type", "start_timestamp",
                  "end_timestamp", "transcript"} : Missing(k)
    /\ SummaryMissing
    /\ Len(qaParts.v.varsJson) = MAX_VARS_JSON_CHARS


(***************************************************************************)
(* Properties of the two functions over several deliveries                 *)
(***************************************************************************)
\* two invocations of one function on equal records have equal results
SameInSameOut ==
    \A i, j \in 1..Len(log) :
        (log[i].fn = log[j].fn /\ inbox[log[i].d] = inbox[log[j].d])
            => log[i].out = log[j].out

\* an invocation leaves every record and every earlier result as it was
NothingModified ==
    /\ inbox' = inbox
    /\ SubSeq(log', 1, Len(log)) = log

C20_OneTicketPerCall ==
    \A i, j \in 1..Len(tickets) :
        tickets[i].external_id = tickets[j].external_id => i = j


(***************************************************************************)
(* Properties of normalizeCallId                                           *)
(***************************************************************************)
OnlyIdChars(t) == \A i \in 1..Len(t) : CharAt(t, i) \in IdChars

\* the part of a callid_ tag after the prefix
AfterPrefix(tag) == SubSeq(tag, 8, Len(tag))

IsCallIdTag(tag) == Len(tag) >= 7 /\ SubSeq(tag, 1, 7) = "callid_"

\* C21: for every input normalizeCallId returns a string of letters, digits,
\* underscore and hyphen; every callid_ tag built by /create-ticket and by
\* the search uses only those characters after the prefix; an absent
\* call_id gives the empty string and no callid_ tag.
C21_CallIdAlphabet ==
    /\ result # NotRun => ~result.threw
    /\ (result # NotRun /\ ~result.threw) =>
         /\ result.fn = "normalizeCallId" => OnlyIdChars(result.v)
         /\ result.fn # "normalizeCallId" =>
              \A i \in 1..Len(result.v) :
                  IsCallIdTag(result.v[i]) => OnlyIdChars(AfterPrefix(result.v[i]))
         /\ arg \in {Undef, Null} =>
              /\ result.fn = "normalizeCallId" => result.v = ""
              /\ result.fn # "normalizeCallId" =>
                   \A i \in 1..Len(result.v) : ~IsCallIdTag(result.v[i])

\* C21 without the promise to return: whenever the helpers return.
C21_AlphabetWhenReturned == C21_CallIdAlphabet \/ (result # NotRun /\ result.threw)


(***************************************************************************)
(* Properties of the server                                                *)
(***************************************************************************)
IsWebhook(d) == inbox[d].path = "/retell-webhook"

Responses(d) == hook[d].responses

\* the requests d sent to the ticket store
SentBy(d) == SelectSeq(requests, LAMBDA r : r.by = d)

EventOfDelivery(d) == eventOf(Or(inbox[d].body, Obj(<<>>)))

CallOfDelivery(d) == Get(Or(inbox[d].body, Obj(<<>>)), "call")

\* d carries a call object and the event call_analyzed
Analyzed(d) ==
    IsWebhook(d) /\ Truthy(CallOfDelivery(d)) /\ EventOfDelivery(d) = Str("call_analyzed")

\* d carries no call object, or an event type (a text) other than
\* call_analyzed
OtherEvent(d) ==
    /\ IsWebhook(d)
    /\ \/ ~Truthy(CallOfDelivery(d))
       \/ EventOfDelivery(d).t = "string" /\ EventOfDelivery(d) # Str("call_analyzed")

RECURSIVE QaComments(_)
\* the comments on the tickets beyond the one each was created with
QaComments(ts) ==
    IF Len(ts) = 0 THEN 0
    ELSE (Len(ts[1].comments) - 1) + QaComments(SubSeq(ts, 2, Len(ts)))

LookupWithoutId(d) ==
    /\ Analyzed(d)
    /\ hook[d].pc = "done"
    /\ ~Truthy(payloadTicketId(CallOfDelivery(d)))
    /\ ~Truthy(hook[d].ticket_id)
    /\ \/ ~Truthy(Get(CallOfDelivery(d), "call_id"))
       \/ Len(log[d]) = 1 /\ log[d][1] # "rejects"

MethodsOf(d) == {SentBy(d)[i].method : i \in 1..Len(SentBy(d))}

\* C24: /retell-webhook sends only GET and PUT requests and no ticket comes
\* from it; a call_analyzed delivery left without a ticket id by its
\* payload and by the search is answered success, skipped
\* no_ticket_to_update, and sends no update.
C24_WebhookNeverCreates ==
    /\ \A d \in ServerRequests : IsWebhook(d) => MethodsOf(d) \subseteq {"GET", "PUT"}
    /\ Len(tickets) <= Cardinality({d \in ServerRequests : ~IsWebhook(d) /\ Len(SentBy(d)) > 0})
    /\ \A d \in ServerRequests :
           LookupWithoutId(d) =>
               /\ Responses(d) = <<Response(200, TRUE, "no_ticket_to_update", Undef)>>
               /\ "PUT" \notin MethodsOf(d)

\* a delivery with a call_id searched, the store answered with no ticket,
\* and the delivery was skipped while the store stayed empty
C24_Witness ==
    \E d \in ServerRequests :
        /\ LookupWithoutId(d)
        /\ MethodsOf(d) = {"GET"}
        /\ log[d] = <<"ok">>
        /\ tickets = <<>>


\* the last answer d got from the ticket store was to its update
UpdateReply(d) ==
    IF "PUT" \in MethodsOf(d) /\ Len(log[d]) > 0 /\ hook[d].pc = "done"
    THEN log[d][Len(log[d])] ELSE "none"

\* the handler of d came to a request to the ticket store
NeedsStore(d) ==
    /\ Analyzed(d)
    /\ Truthy(payloadTicketId(CallOfDelivery(d))) \/ Truthy(Get(CallOfDelivery(d), "call_id"))

Failed500(d) == Responses(d) = <<Response(500, FALSE, "", Undef)>>

\* the comment of the update d sent is on a ticket
UpdateApplied(d) ==
    \E i \in 1..Len(tickets) : \E k \in 1..Len(tickets[i].comments) :
        tickets[i].comments[k] = SentBy(d)[Len(SentBy(d))].ticket.comment

\* C25: an update the ticket store answers with a non-ok status, a request
\* that raises and missing credentials are answered 500 with success
\* false; success true is answered only after an update the store
\* accepted or when no update was sent.
C25_FailuresAnswered500 ==
    \A d \in ServerRequests :
        (IsWebhook(d) /\ hook[d].pc = "done") =>
            /\ UpdateReply(d) \in {"not_ok", "rejects"} => Failed500(d)
            /\ (missingEnv /\ NeedsStore(d)) => Failed500(d)
            /\ (\E i \in 1..Len(Responses(d)) : Responses(d)[i].success) =>
                   \/ "PUT" \notin MethodsOf(d)
                   \/ UpdateReply(d) = "ok" /\ UpdateApplied(d)

\* the update of a delivery was answered with a non-ok status and the
\* delivery with 500
C25_Witness ==
    \E d \in ServerRequests :
        IsWebhook(d) /\ UpdateReply(d) = "not_ok" /\ Failed500(d)


IsCreate(d) == inbox[d].path = "/create-ticket"

\* the call_id a request to /create-ticket carries
CreateCallId(d) == Get(argsOf(Or(inbox[d].body, Obj(<<>>))), "call_id")

\* /create-ticket answered d with success and the id of the ticket
Created(d) ==
    /\ IsCreate(d)
    /\ Truthy(CreateCallId(d))
    /\ Len(Responses(d)) = 1 /\ Responses(d)[1].success

CreatedId(d) == Responses(d)[1].ticket_id

\* d is a call_analyzed delivery for the call_id c without a ticket id
\* in its payload
LinksByTag(d, c) ==
    /\ Analyzed(d)
    /\ Get(CallOfDelivery(d), "call_id") = c
    /\ ~Truthy(payloadTicketId(CallOfDelivery(d)))

\* the ticket d1 created carries a callid_ tag and the search of d2 is the
\* search for that tag
SearchesTagOf(d1, d2) ==
    \A i \in 1..Len(SentBy(d2)) :
        SentBy(d2)[i].method = "GET" =>
            \E t \in 1..Len(tickets) :
                /\ Num(tickets[t].id) = CreatedId(d1)
                /\ \E k \in 1..Len(tickets[t].tags) :
                       /\ IsCallIdTag(tickets[t].tags[k])
                       /\ SentBy(d2)[i].path = searchPath(tickets[t].tags[k])

\* the ticket store answers the search of d2 with its results when d1 has
\* been answered already
SearchAnsweredAfter(d1, d2) ==
    /\ Created(d1)
    /\ hook[d2].pc = "searching"
    /\ log'[d2] = <<"ok">>

\* C26: once /create-ticket has succeeded for call_id c, a call_analyzed
\* delivery for c without a ticket id searches the tag that is on the
\* ticket created, and a search answered after that leads to the update
\* of that ticket.
C26_LinkedByCallId ==
    /\ [](\A d1, d2 \in ServerRequests :
              (Created(d1) /\ LinksByTag(d2, CreateCallId(d1))) => SearchesTagOf(d1, d2))
    /\ [][\A d1, d2 \in ServerRequests :
              (LinksByTag(d2, CreateCallId(d1)) /\ SearchAnsweredAfter(d1, d2)) =>
                  /\ hook'[d2].ticket_id = CreatedId(d1)
                  /\ \/ hook'[d2].pc = "updating"
                     \/ missingEnv]_vars

\* The search part alone: the tag searched is the tag on the ticket
C26_SearchesSameTag ==
    \A d1, d2 \in ServerRequests :
        (Created(d1) /\ LinksByTag(d2, CreateCallId(d1))) => SearchesTagOf(d1, d2)

\* normalizeCallId applied to its own result changes nothing
C26_Idempotent ==
    (result # NotRun /\ ~result.threw /\ result.fn = "normalizeCallId") =>
        normalizeCallId(Str(result.v)) = result.v



(***************************************************************************)
(* Properties of the business hours                                        *)
(***************************************************************************)
HoursRan(fn) == result # NotRun /\ result.fn = fn /\ ~result.threw

\* minutes of the local day
LocalMinute == now.hour * 60 + now.minute

\* Monday to Saturday, from 08:00 up to and without 20:00
InsideHours == now.weekday \in 1..6 /\ 8 * 60 <= LocalMinute /\ LocalMinute < 20 * 60

\* C27: business_hours is true exactly when the local weekday is Monday
\* to Saturday and the local time is at or after 08:00 and before 20:00;
\* when computing it raises, /check-business-hours answers business_hours
\* false.
C27_BusinessHours ==
    /\ HoursRan("getBusinessHoursNow") => (result.v.business_hours <=> InsideHours)
    /\ HoursRan("/check-business-hours") =>
           (result.v.business_hours <=> (InsideHours /\ now.intl # "throws"))

\* 19:59 on a Saturday is inside
C27_Witness ==
    /\ HoursRan("getBusinessHoursNow")
    /\ now.weekday = 6 /\ now.hour = 19 /\ now.minute = 59
    /\ result.v.business_hours



(***************************************************************************)
(* The refinement tag of computeTags                                       *)
(***************************************************************************)
\* C28: in a tag list computeTags returns, ai_no_chance comes with
\* ai_early_hangup and ai_resolved, and without requested_human,
\* sentiment_negative, ai_hangup and ai_failed.
C28_NoChanceCompany ==
    (TagsReturned /\ HasTag("ai_no_chance")) =>
        /\ HasTag("ai_early_hangup")
        /\ HasTag("ai_resolved")
        /\ ~HasTag("requested_human")
        /\ ~HasTag("sentiment_negative")
        /\ ~HasTag("ai_hangup")
        /\ ~HasTag("ai_failed")

\* an early hangup of a call that was transferred: the outcome rule fails
\* it and the exception gives ai_no_chance with ai_resolved
C28_Witness ==
    /\ TagsReturned
    /\ HasTag("ai_no_chance")
    /\ HasTag("ai_transferred")
    /\ HasTag("ai_resolved")



(***************************************************************************)
(* The update of /retell-webhook                                           *)
(***************************************************************************)
\* the updates d sent
Puts(d) == SelectSeq(SentBy(d), LAMBDA r : r.method = "PUT")

\* d is a call_analyzed delivery that has its ticket id, from the payload
\* or from the search
ResolvedTicket(d) ==
    /\ Analyzed(d)
    /\ hook[d].pc \in {"updating", "done"}
    /\ Truthy(hook[d].ticket_id)

\* the update of d is the QA report as a non-public comment and the tags
\* of computeTags as additional_tags, for the ticket of d
IsQaUpdate(r, d) ==
    /\ r.path = ticketPath(hook[d].ticket_id)
    /\ r.ticket.comment.public = FALSE
    /\ r.ticket.comment.body = buildQaPayload(CallOfDelivery(d))
    /\ r.ticket.additional_tags = computeTags(CallOfDelivery(d))
    /\ r.ticket.tags = <<>>

\* the ticket /create-ticket made for d1 carries its callid_ tag
KeepsCallIdTag(d1) ==
    \A t \in 1..Len(tickets) :
        Num(tickets[t].id) = CreatedId(d1) =>
            SetHas(tickets[t].tags, callIdTag(CreateCallId(d1)))

\* C29: a call_analyzed delivery that has its ticket id sends one update,
\* the QA report as a non-public comment with the tags of computeTags as
\* additional_tags, and the callid_ tag of /create-ticket stays on the
\* ticket through the updates.  (A delivery stopped by missing credentials
\* is counted as having made its request.)
C29_OneUpdateAddsTags ==
    /\ \A d \in ServerRequests :
           (ResolvedTicket(d) /\ ~missingEnv) =>
               Len(Puts(d)) = 1 /\ IsQaUpdate(Puts(d)[1], d)
    /\ \A d1 \in ServerRequests : Created(d1) => KeepsCallIdTag(d1)

\* What holds of the updates: never two for one delivery, each one the
\* QA report and the tags, and the callid_ tag stays.
C29_UpdatesSent ==
    /\ \A d \in ServerRequests :
           IsWebhook(d) =>
               /\ Len(Puts(d)) <= 1
               /\ Len(Puts(d)) = 1 => ResolvedTicket(d) /\ IsQaUpdate(Puts(d)[1], d)
               /\ (ResolvedTicket(d) /\ ~missingEnv /\ ~qaOf[CallOfDelivery(d)].threw) =>
                      Len(Puts(d)) = 1
    /\ \A d1 \in ServerRequests : Created(d1) => KeepsCallIdTag(d1)

=============================================================================
